---------------------------- MODULE Spec2Model ----------------------------
(***************************************************************************)
(* gvc (src/app/main.go, the snapshot that starts at line 475): the object *)
(* store, the tree and commit codecs, the staging index and the reference  *)
(* store, with one action per command handler.                             *)
(*                                                                         *)
(* A byte is a number in 0..255 and a Go string or []byte is a sequence of *)
(* bytes; string literals of the source are spelled out as byte sequences. *)
(***************************************************************************)
EXTENDS Integers, Sequences, FiniteSets, Bags, TLC

(***************************************************************************)
(* Bytes and strings                                                       *)
(***************************************************************************)
SP == 32
NUL == 0
LF == 10
Slash == 47


\* the first position >= i of s that holds a byte of set, or Len(s)+1
IndexFrom(s, i, set) ==
    IF i > Len(s) THEN Len(s) + 1
    ELSE CHOOSE j \in i..(Len(s) + 1) :
            /\ (j = Len(s) + 1 \/ s[j] \in set)
            /\ \A k \in i..(j - 1) : s[k] \notin set

HasPrefix(s, p) == Len(s) >= Len(p) /\ SubSeq(s, 1, Len(p)) = p

\* byte-wise s < t, Go's comparison of strings
RECURSIVE StrLess(_, _)
StrLess(s, t) ==
    IF t = <<>> THEN FALSE
    ELSE IF s = <<>> THEN TRUE
    ELSE IF s[1] # t[1] THEN s[1] < t[1]
    ELSE StrLess(Tail(s), Tail(t))

\* unicode.IsSpace on the ASCII range: \t \n \v \f \r and space
WhiteSpace == {9, 10, 11, 12, 13, 32}

RECURSIVE TrimLeft(_)
TrimLeft(s) ==
    IF s # <<>> /\ s[1] \in WhiteSpace THEN TrimLeft(Tail(s)) ELSE s

RECURSIVE TrimRight(_)
TrimRight(s) ==
    IF s # <<>> /\ s[Len(s)] \in WhiteSpace
    THEN TrimRight(SubSeq(s, 1, Len(s) - 1)) ELSE s

\* strings.TrimSpace
TrimSpace(s) == TrimRight(TrimLeft(s))

\* strings.Split(s, sep) for a one-byte separator: always at least one piece
RECURSIVE Split(_, _)
Split(s, sep) ==
    LET i == IndexFrom(s, 1, {sep})
    IN  IF i > Len(s) THEN <<s>>
        ELSE <<SubSeq(s, 1, i - 1)>> \o Split(SubSeq(s, i + 1, Len(s)), sep)

\* strings.SplitN(s, sep, 2): cut at the first separator only
SplitN2(s, sep) ==
    LET i == IndexFrom(s, 1, {sep})
    IN  IF i > Len(s) THEN <<s>>
        ELSE <<SubSeq(s, 1, i - 1), SubSeq(s, i + 1, Len(s))>>

\* strings.Join(parts, sep) for a one-byte separator
RECURSIVE Join(_, _)
Join(parts, sep) ==
    IF parts = <<>> THEN <<>>
    ELSE IF Len(parts) = 1 THEN parts[1]
    ELSE parts[1] \o <<sep>> \o Join(Tail(parts), sep)

\* fmt's %d of a non-negative integer
RECURSIVE Itoa(_)
Itoa(n) == IF n < 10 THEN <<48 + n>> ELSE Itoa(n \div 10) \o <<48 + (n % 10)>>

Digits == 48..57

\* the value of a non-empty run of decimal digits
RECURSIVE Atoi(_)
Atoi(s) ==
    IF Len(s) = 1 THEN s[1] - 48
    ELSE 10 * Atoi(SubSeq(s, 1, Len(s) - 1)) + (s[Len(s)] - 48)

(***************************************************************************)
(* encoding/hex                                                            *)
(***************************************************************************)
HexDigit(n) == IF n < 10 THEN 48 + n ELSE 87 + n

\* hex.DecodeString accepts both cases
HexChars == (48..57) \cup (97..102) \cup (65..70)

HexValue(c) == IF c \in 48..57 THEN c - 48
               ELSE IF c \in 97..102 THEN c - 87
               ELSE c - 55

\* hex.EncodeToString
RECURSIVE HexEncode(_)
HexEncode(b) ==
    IF b = <<>> THEN <<>>
    ELSE <<HexDigit(b[1] \div 16), HexDigit(b[1] % 16)>> \o HexEncode(Tail(b))

\* hex.DecodeString of a string that validateSHA accepts; the source drops
\* the error at both call sites
RECURSIVE HexDecode(_)
HexDecode(s) ==
    IF Len(s) < 2 THEN <<>>
    ELSE <<16 * HexValue(s[1]) + HexValue(s[2])>> \o HexDecode(Tail(Tail(s)))

\* validateSHA: nil exactly when the string is 40 hex characters
validateSHA(sha) ==
    /\ Len(sha) = 40
    /\ \A i \in 1..Len(sha) : sha[i] \in HexChars

(***************************************************************************)
(* crypto/sha1 and compress/zlib                                           *)
(***************************************************************************)
\* "tree 0\x00", the payload of the tree without entries
EmptyTreePayload == <<116, 114, 101, 101, 32, 48, 0>>

\* 4b825dc642cb6eb9a060e54bf8d69288fbee4904, its SHA-1
EmptyTreeSHA ==
    <<52, 98, 56, 50, 53, 100, 99, 54, 52, 50, 99, 98, 54, 101, 98, 57, 97, 48,
      54, 48, 101, 53, 52, 98, 102, 56, 100, 54, 57, 50, 56, 56, 102, 98, 101,
      101, 52, 57, 48, 52>>

\* the sum of a sequence of positive numbers, as the cardinality of the
\* bag that holds f[i] copies of i
SumOf(f) == IF f = <<>> THEN 0 ELSE BagCardinality(f)

\* A stand-in for the 160-bit digest: two position-weighted sums of the
\* bytes fill the last bytes of the 20; deterministic, and distinct for the
\* distinct payloads the model writes.
DigestA(b) ==
    SumOf([i \in 1..Len(b) |-> (((i * 7919) % 1009) + 1) * (b[i] + 1)]) + Len(b)

DigestB(b) ==
    SumOf([i \in 1..Len(b) |-> (((i * 6101) % 997) + 1) * (b[i] + 1)])
        + 3 * Len(b)

DigestBytes(m, n) ==
    [i \in 1..20 |->
        CASE i = 13 -> (m \div 16777216) % 256
          [] i = 14 -> (m \div 65536) % 256
          [] i = 15 -> (m \div 256) % 256
          [] i = 16 -> m % 256
          [] i = 17 -> (n \div 16777216) % 256
          [] i = 18 -> (n \div 65536) % 256
          [] i = 19 -> (n \div 256) % 256
          [] i = 20 -> n % 256
          [] OTHER  -> (23 * i + m + n) % 256]

\* hex.EncodeToString(sha1.Sum(fullContent)[:]): 40 lower-case hex characters
Sha1Hex(fullContent) ==
    IF fullContent = EmptyTreePayload THEN EmptyTreeSHA
    ELSE HexEncode(DigestBytes(DigestA(fullContent), DigestB(fullContent)))

\* Adler-32, the checksum that ends a zlib stream: s1 is 1 plus the sum of
\* the bytes, s2 the sum of the successive values of s1, both mod 65521
Adler(b) ==
    LET n == Len(b)
        bytes == SumOf([i \in 1..n |-> b[i] + 1]) - n
        weighted == SumOf([i \in 1..n |-> (n - i + 1) * (b[i] + 1)])
                        - (n * (n + 1)) \div 2
        s1 == (1 + bytes) % 65521
        s2 == (n + weighted) % 65521
    IN  <<s2 \div 256, s2 % 256, s1 \div 256, s1 % 256>>

ZlibHeader == <<120, 156>>

\* the deflate stream, modelled as one final stored block: the block byte,
\* LEN and its complement NLEN (little-endian), the bytes
Deflate(b) ==
    LET n == Len(b)
    IN  <<1, n % 256, n \div 256, 255 - (n % 256), 255 - (n \div 256)>> \o b

\* zlib.NewWriter + Write + Close: header, deflate stream, Adler-32 of the
\* uncompressed bytes
Compress(b) == ZlibHeader \o Deflate(b) \o Adler(b)

\* zlib.NewReader and reading to EOF: ok is FALSE when the header is not a
\* zlib header, the stream ends early or the checksum disagrees
Decompress(data) ==
    LET bad == [ok |-> FALSE, bytes |-> <<>>]
    IN  IF Len(data) < 7 \/ SubSeq(data, 1, 2) # ZlibHeader \/ data[3] # 1
        THEN bad
        ELSE LET n == data[4] + 256 * data[5]
             IN  IF data[6] # 255 - data[4] \/ data[7] # 255 - data[5]
                    \/ Len(data) < 7 + n + 4
                 THEN bad
                 ELSE LET body == SubSeq(data, 8, 7 + n)
                      IN  IF SubSeq(data, 8 + n, 11 + n) = Adler(body)
                          THEN [ok |-> TRUE, bytes |-> body]
                          ELSE bad

(***************************************************************************)
(* Object store                                                            *)
(***************************************************************************)
TypeBlob == <<98, 108, 111, 98>>                \* "blob"
TypeTree == <<116, 114, 101, 101>>              \* "tree"
TypeCommit == <<99, 111, 109, 109, 105, 116>>   \* "commit"

\* the failure of an operation; err = "" is success
Fail(e) == [err |-> e]

\* a faulty Header: the NUL that ends the header is not written
HeaderWithoutNul(objectType, n) == objectType \o <<SP>> \o Itoa(n)

\* fmt.Sprintf("%s %d\x00", objectType, len(content))
Header(objectType, n) == objectType \o <<SP>> \o Itoa(n) \o <<NUL>>

\* a faulty writeObject: the objects directory is emptied before the file
\* is written
writeObjectAlone(objs, objectType, content) ==
    LET fullContent == Header(objectType, Len(content)) \o content
        sha == Sha1Hex(fullContent)
    IN  [sha |-> sha, objects |-> (sha :> Compress(fullContent))]

\* writeObject: the hash of header + content, and the store with the
\* compressed bytes written (os.WriteFile truncates and overwrites) at the
\* path the hash names
writeObject(objs, objectType, content) ==
    LET fullContent == Header(objectType, Len(content)) \o content
        sha == Sha1Hex(fullContent)
    IN  [sha |-> sha, objects |-> (sha :> Compress(fullContent)) @@ objs]

\* blanks that fmt's scanner skips; a newline is an error for Fscanf
Blank == WhiteSpace \ {LF}

NonBlank == (0..255) \ Blank

NonDigit == (0..255) \ Digits

\* fmt.Fscanf(zr, "%s %d\x00", &objectType, &contentLength) followed by
\* io.ReadAll(zr): the type token, the declared length, the remaining bytes
ScanHeader(b) ==
    LET bad == [ok |-> FALSE, type |-> <<>>, length |-> 0, content |-> <<>>]
        i1 == IndexFrom(b, 1, NonBlank)
        i2 == IndexFrom(b, i1, WhiteSpace)
        i3 == IndexFrom(b, i2, NonBlank)
    IN  IF i1 > Len(b) \/ i2 = i1 \/ i3 > Len(b) \/ b[i3] = LF
        THEN bad
        ELSE LET i4 == IF b[i3] \in {43, 45} THEN i3 + 1 ELSE i3
                 i5 == IndexFrom(b, i4, NonDigit)
             IN  IF i5 = i4 \/ i5 > Len(b) \/ b[i5] # NUL
                 THEN bad
                 ELSE [ok |-> TRUE,
                       type |-> SubSeq(b, i1, i2 - 1),
                       length |-> IF b[i3] = 45 THEN 0 - Atoi(SubSeq(b, i4, i5 - 1))
                                  ELSE Atoi(SubSeq(b, i4, i5 - 1)),
                       content |-> SubSeq(b, i5 + 1, Len(b))]

\* a faulty readObject: the content is returned whatever length the header
\* declares
readObjectUnchecked(objs, sha) ==
    IF ~validateSHA(sha) THEN Fail("InvalidHash")
    ELSE IF sha \notin DOMAIN objs THEN Fail("NotFound")
    ELSE LET z == Decompress(objs[sha])
             h == ScanHeader(z.bytes)
         IN  IF ~z.ok \/ ~h.ok THEN Fail("Corrupt")
             ELSE [err |-> "", type |-> h.type, content |-> h.content]

\* readObject
readObject(objs, sha) ==
    IF ~validateSHA(sha) THEN Fail("InvalidHash")
    ELSE IF sha \notin DOMAIN objs THEN Fail("NotFound")
    ELSE LET z == Decompress(objs[sha])
             h == ScanHeader(z.bytes)
         IN  IF ~z.ok \/ ~h.ok THEN Fail("Corrupt")
             ELSE IF Len(h.content) # h.length THEN Fail("Corrupt")
             ELSE [err |-> "", type |-> h.type, content |-> h.content]

(***************************************************************************)
(* Tree codec                                                              *)
(***************************************************************************)
ModeFile == <<49, 48, 48, 54, 52, 52>>   \* "100644"
ModeExec == <<49, 48, 48, 55, 53, 53>>   \* "100755"
ModeDir == <<52, 48, 48, 48, 48>>        \* "40000"

\* a faulty EncodeEntry: the hash is written as its 40 hex characters
EncodeEntryHexText(mode, name, sha) ==
    mode \o <<SP>> \o name \o <<NUL>> \o sha

\* one entry: fmt.Sprintf("%s %s", mode, name), a NUL, the 20 hash bytes
EncodeEntry(mode, name, sha) ==
    mode \o <<SP>> \o name \o <<NUL>> \o HexDecode(sha)

\* the loop that fills treeContent from entries [Mode, Name, SHA]
RECURSIVE TreeContent(_)
TreeContent(entries) ==
    IF entries = <<>> THEN <<>>
    ELSE EncodeEntry(entries[1].Mode, entries[1].Name, entries[1].SHA)
         \o TreeContent(Tail(entries))

\* parseTreeEntries from byte position index (1-based)
RECURSIVE ParseTreeFrom(_, _, _)
ParseTreeFrom(content, index, entries) ==
    IF index > Len(content) THEN [err |-> "", entries |-> entries]
    ELSE LET sp == IndexFrom(content, index, {SP})
             nul == IndexFrom(content, sp + 1, {NUL})
         IN  IF sp > Len(content) THEN Fail("MalformedTree")
             ELSE IF nul > Len(content) THEN Fail("MalformedTree")
             ELSE IF nul + 20 > Len(content) THEN Fail("MalformedTree")
             ELSE LET mode == SubSeq(content, index, sp - 1)
                      e == [Mode |-> mode,
                            Name |-> SubSeq(content, sp + 1, nul - 1),
                            SHA |-> HexEncode(SubSeq(content, nul + 1, nul + 20)),
                            Type |-> IF mode = ModeDir THEN TypeTree ELSE TypeBlob]
                  IN  ParseTreeFrom(content, nul + 21, Append(entries, e))

parseTreeEntries(content) == ParseTreeFrom(content, 1, <<>>)

\* insertion of x into a sequence sorted by key, after the items that are
\* not greater: sort.Slice sorts slices of fewer than 12 items by insertion
RECURSIVE InsertByKey(_, _)
InsertByKey(x, s) ==
    IF s = <<>> THEN <<x>>
    ELSE IF StrLess(x.key, s[Len(s)].key)
         THEN Append(InsertByKey(x, SubSeq(s, 1, Len(s) - 1)), s[Len(s)])
         ELSE Append(s, x)

RECURSIVE SortByKey(_)
SortByKey(s) ==
    IF s = <<>> THEN <<>>
    ELSE InsertByKey(s[Len(s)], SortByKey(SubSeq(s, 1, Len(s) - 1)))

\* filepath.Base
Base(path) ==
    IF path = <<>> THEN <<46>>
    ELSE LET q == CHOOSE n \in 0..Len(path) :
                    /\ \A i \in (n + 1)..Len(path) : path[i] = Slash
                    /\ (n > 0 => path[n] # Slash)
         IN  IF q = 0 THEN <<Slash>>
             ELSE LET from == CHOOSE i \in 1..q :
                                /\ (i > 1 => path[i - 1] = Slash)
                                /\ \A j \in i..q : path[j] # Slash
                  IN  SubSeq(path, from, q)

\* the names of a set of strings in ascending byte-wise order (os.ReadDir
\* returns the entries sorted by filename)
RECURSIVE SortedNames(_)
SortedNames(S) ==
    IF S = {} THEN <<>>
    ELSE LET m == CHOOSE x \in S : \A y \in S : ~StrLess(y, x)
         IN  <<m>> \o SortedNames(S \ {m})

(***************************************************************************)
(* Commit codec                                                            *)
(***************************************************************************)
KeyTree == <<116, 114, 101, 101>>                                \* "tree"
KeyParent == <<112, 97, 114, 101, 110, 116>>                     \* "parent"
KeyAuthor == <<97, 117, 116, 104, 111, 114>>                     \* "author"
KeyCommitter == <<99, 111, 109, 109, 105, 116, 116, 101, 114>>   \* "committer"

\* "gvc <Ritik Chauhan> <critik1704@gmail.com>"
AuthorIdent ==
    <<103, 118, 99, 32, 60, 82, 105, 116, 105, 107, 32, 67, 104, 97, 117, 104,
      97, 110, 62, 32, 60, 99, 114, 105, 116, 105, 107, 49, 55, 48, 52, 64,
      103, 109, 97, 105, 108, 46, 99, 111, 109, 62>>

TzOffset == <<32, 43, 48, 48, 48, 48>>   \* " +0000"

\* the text commitTree writes, now being time.Now().Unix()
CommitContent(treeSHA, parentSHA, message, now) ==
    LET timestamp == Itoa(now) \o TzOffset
    IN  KeyTree \o <<SP>> \o treeSHA \o <<LF>>
        \o (IF parentSHA # <<>>
            THEN KeyParent \o <<SP>> \o parentSHA \o <<LF>> ELSE <<>>)
        \o KeyAuthor \o <<SP>> \o AuthorIdent \o <<SP>> \o timestamp \o <<LF>>
        \o KeyCommitter \o <<SP>> \o AuthorIdent \o <<SP>> \o timestamp \o <<LF>>
        \o <<LF>> \o message \o <<LF>>

\* a faulty commitTree: the parent hash is written as given
commitTreeAnyParent(objs, treeSHA, parentSHA, message, now) ==
    IF ~validateSHA(treeSHA)
    THEN [err |-> "InvalidHash", sha |-> <<>>, objects |-> objs]
    ELSE LET w == writeObject(objs, TypeCommit,
                              CommitContent(treeSHA, parentSHA, message, now))
         IN  [err |-> "", sha |-> w.sha, objects |-> w.objects]

\* commitTree
commitTree(objs, treeSHA, parentSHA, message, now) ==
    IF ~validateSHA(treeSHA)
    THEN [err |-> "InvalidHash", sha |-> <<>>, objects |-> objs]
    ELSE IF parentSHA # <<>> /\ ~validateSHA(parentSHA)
    THEN [err |-> "InvalidHash", sha |-> <<>>, objects |-> objs]
    ELSE LET w == writeObject(objs, TypeCommit,
                              CommitContent(treeSHA, parentSHA, message, now))
         IN  [err |-> "", sha |-> w.sha, objects |-> w.objects]

\* parseInt64: strconv.ParseInt(s, 10, 64), zero when it fails
parseInt64(s) ==
    LET body == IF s # <<>> /\ s[1] \in {43, 45} THEN Tail(s) ELSE s
    IN  IF body = <<>> \/ \E i \in 1..Len(body) : body[i] \notin Digits THEN 0
        ELSE IF s[1] = 45 THEN 0 - Atoi(body) ELSE Atoi(body)

\* the zero CommitInfo; Timestamp is <<>> for the zero time.Time and
\* <<seconds>> for time.Unix(seconds, 0)
EmptyCommitInfo(commitSHA) ==
    [SHA |-> commitSHA, TreeSHA |-> <<>>, ParentSHA |-> <<>>,
     Author |-> <<>>, Message |-> <<>>, Timestamp |-> <<>>]

\* one header line of parseCommit's loop
ParseLine(commit, line) ==
    LET parts == SplitN2(line, SP)
    IN  IF Len(parts) < 2 THEN commit
        ELSE IF parts[1] = KeyTree THEN [commit EXCEPT !.TreeSHA = parts[2]]
        ELSE IF parts[1] = KeyParent THEN [commit EXCEPT !.ParentSHA = parts[2]]
        ELSE IF parts[1] = KeyAuthor
        THEN LET authorParts == Split(parts[2], SP)
                 n == Len(authorParts)
             IN  IF n >= 2
                 THEN [commit EXCEPT
                         !.Timestamp = <<parseInt64(authorParts[n - 1])>>,
                         !.Author = Join(SubSeq(authorParts, 1, n - 2), SP)]
                 ELSE commit
        ELSE commit

\* parseCommit's loop over lines from the i-th: the commit so far and
\* messageStart (the source's 0-based index; -1 when no line is empty)
RECURSIVE ParseHeaderLines(_, _, _)
ParseHeaderLines(lines, i, commit) ==
    IF i > Len(lines) THEN [commit |-> commit, messageStart |-> -1]
    ELSE IF lines[i] = <<>> THEN [commit |-> commit, messageStart |-> i]
    ELSE ParseHeaderLines(lines, i + 1, ParseLine(commit, lines[i]))

\* a faulty parseCommit: the message is kept as it stands in the object
parseCommitUntrimmed(commitSHA, content) ==
    LET lines == Split(content, LF)
        h == ParseHeaderLines(lines, 1, EmptyCommitInfo(commitSHA))
    IN  IF h.messageStart > 0 /\ h.messageStart < Len(lines)
        THEN [h.commit EXCEPT !.Message =
                Join(SubSeq(lines, h.messageStart + 1, Len(lines)), LF)]
        ELSE h.commit

\* parseCommit
parseCommit(commitSHA, content) ==
    LET lines == Split(content, LF)
        h == ParseHeaderLines(lines, 1, EmptyCommitInfo(commitSHA))
    IN  IF h.messageStart > 0 /\ h.messageStart < Len(lines)
        THEN [h.commit EXCEPT !.Message =
                TrimSpace(Join(SubSeq(lines, h.messageStart + 1, Len(lines)), LF))]
        ELSE h.commit

(***************************************************************************)
(* Staging index                                                           *)
(***************************************************************************)
\* U+FFFD in UTF-8
ReplacementRune == <<239, 191, 189>>

\* A string after json.Marshal and json.Unmarshal: encoding/json coerces a
\* string to valid UTF-8, writing U+FFFD for every byte that is not part
\* of a valid encoding. Exact for the strings of the model, where a byte
\* above 127 is valid only inside a U+FFFD written earlier.
RECURSIVE JsonString(_)
JsonString(str) ==
    IF str = <<>> THEN <<>>
    ELSE IF str[1] < 128 THEN <<str[1]>> \o JsonString(Tail(str))
    ELSE IF HasPrefix(str, ReplacementRune)
         THEN ReplacementRune \o JsonString(SubSeq(str, 4, Len(str)))
    ELSE ReplacementRune \o JsonString(Tail(str))

\* the index file: exists is FALSE when .gvc/index is absent
NoIndex == [exists |-> FALSE, entries |-> <<>>]

\* readIndex: an absent file reads as no entries
readIndex(indexFile) == indexFile.entries

\* writeIndex: what a later readIndex returns (SHA and Mode are ASCII, Size
\* is a number: json writes and reads them back unchanged)
writeIndex(entries) ==
    [exists |-> TRUE,
     entries |-> [i \in 1..Len(entries) |->
                    [entries[i] EXCEPT !.Path = JsonString(@)]]]

\* the entries with the first one of path filePath removed
RemoveFirst(entries, filePath) ==
    LET hits == {i \in 1..Len(entries) : entries[i].Path = filePath}
    IN  IF hits = {} THEN entries
        ELSE LET i == CHOOSE h \in hits : \A k \in hits : h <= k
             IN  SubSeq(entries, 1, i - 1) \o SubSeq(entries, i + 1, Len(entries))

\* handleAdd's loop over args from the i-th: os.Stat fails for a path that
\* is no file of the working directory, os.ReadFile for a file that cannot
\* be read
RECURSIVE AddLoop(_, _, _, _, _)
AddLoop(objs, wd, entries, args, i) ==
    IF i > Len(args) THEN [err |-> "", objects |-> objs, entries |-> entries]
    ELSE IF args[i] \notin DOMAIN wd
    THEN [err |-> "NotFound", objects |-> objs, entries |-> entries]
    ELSE IF ~wd[args[i]].read
    THEN [err |-> "ReadFailed", objects |-> objs, entries |-> entries]
    ELSE LET file == wd[args[i]]
             w == writeObject(objs, TypeBlob, file.data)
             entry == [Path |-> args[i],
                       SHA |-> w.sha,
                       Mode |-> IF file.exec THEN ModeExec ELSE ModeFile,
                       Size |-> Len(file.data)]
         IN  AddLoop(w.objects, wd,
                     Append(RemoveFirst(entries, args[i]), entry), args, i + 1)

\* a faulty handleAdd: the entries staged before a failure are written
handleAddPartial(objs, indexFile, wd, args) ==
    LET r == AddLoop(objs, wd, readIndex(indexFile), args, 1)
    IN  [err |-> r.err, objects |-> r.objects, index |-> writeIndex(r.entries)]

\* handleAdd: the store and the index file it leaves
handleAdd(objs, indexFile, wd, args) ==
    LET r == AddLoop(objs, wd, readIndex(indexFile), args, 1)
    IN  IF r.err # ""
        THEN [err |-> r.err, objects |-> r.objects, index |-> indexFile]
        ELSE [err |-> "", objects |-> r.objects, index |-> writeIndex(r.entries)]

\* the entries createTreeFromIndex encodes: sorted by Path, named by the
\* last element of the path
IndexTreeEntries(entries) ==
    LET sorted == SortByKey([i \in 1..Len(entries) |->
                               [key |-> entries[i].Path, e |-> entries[i]]])
    IN  [i \in 1..Len(sorted) |->
            [Mode |-> sorted[i].e.Mode,
             Name |-> Base(sorted[i].e.Path),
             SHA |-> sorted[i].e.SHA]]

\* a faulty createTreeFromIndex: an index without entries is not refused
createTreeFromIndexAnyway(objs, indexFile) ==
    LET w == writeObject(objs, TypeTree,
                         TreeContent(IndexTreeEntries(readIndex(indexFile))))
    IN  [err |-> "", sha |-> w.sha, objects |-> w.objects]

\* createTreeFromIndex
createTreeFromIndex(objs, indexFile) ==
    LET entries == readIndex(indexFile)
    IN  IF Len(entries) = 0
        THEN [err |-> "EmptyIndex", sha |-> <<>>, objects |-> objs]
        ELSE LET w == writeObject(objs, TypeTree,
                                  TreeContent(IndexTreeEntries(entries)))
             IN  [err |-> "", sha |-> w.sha, objects |-> w.objects]

(***************************************************************************)
(* Working directory walk                                                  *)
(***************************************************************************)
GvcDir == <<46, 103, 118, 99>>   \* ".gvc"

\* the names os.ReadDir lists in the directory whose paths start with
\* prefix ("" for ".", "d/" for d); the repository directory stands in "."
DirNames(wd, prefix) ==
    {SubSeq(p, Len(prefix) + 1, IndexFrom(p, Len(prefix) + 1, {Slash}) - 1) :
        p \in {q \in DOMAIN wd : HasPrefix(q, prefix)}}
    \cup (IF prefix = <<>> THEN {GvcDir} ELSE {})

RECURSIVE writeTree(_, _, _)
\* writeTree's loop over dirEntries: a blob per file, a tree per directory;
\* the first failure ends the loop
RECURSIVE WalkDir(_, _, _, _, _)
WalkDir(objs, wd, prefix, names, treeEntries) ==
    IF names = <<>>
    THEN [err |-> "", objects |-> objs, entries |-> treeEntries]
    ELSE LET name == names[1]
             fullPath == prefix \o name
         IN  IF name = GvcDir
             THEN WalkDir(objs, wd, prefix, Tail(names), treeEntries)
             ELSE IF fullPath \notin DOMAIN wd
             THEN LET sub == writeTree(objs, wd, fullPath \o <<Slash>>)
                  IN  IF sub.err # ""
                      THEN [err |-> sub.err, objects |-> sub.objects,
                            entries |-> treeEntries]
                      ELSE WalkDir(sub.objects, wd, prefix, Tail(names),
                                   Append(treeEntries,
                                          [Mode |-> ModeDir, Name |-> name,
                                           SHA |-> sub.sha, Type |-> TypeTree]))
             ELSE IF ~wd[fullPath].read
             THEN [err |-> "ReadFailed", objects |-> objs,
                   entries |-> treeEntries]
             ELSE LET w == writeObject(objs, TypeBlob, wd[fullPath].data)
                  IN  WalkDir(w.objects, wd, prefix, Tail(names),
                              Append(treeEntries,
                                     [Mode |-> ModeFile, Name |-> name,
                                      SHA |-> w.sha, Type |-> TypeBlob]))

\* the entries writeTree encodes: sorted by Name
DirTreeEntries(treeEntries) ==
    LET sorted == SortByKey([i \in 1..Len(treeEntries) |->
                               [key |-> treeEntries[i].Name, e |-> treeEntries[i]]])
    IN  [i \in 1..Len(sorted) |-> sorted[i].e]

\* a faulty writeTree: the repository directory is listed like any other
writeTreeListingGvc(objs, wd, prefix) ==
    LET walked == WalkDir(objs, wd, prefix, SortedNames(DirNames(wd, prefix)), <<>>)
        listed == IF prefix = <<>>
                  THEN Append(walked.entries,
                              [Mode |-> ModeDir, Name |-> GvcDir,
                               SHA |-> EmptyTreeSHA, Type |-> TypeTree])
                  ELSE walked.entries
        w == writeObject(walked.objects, TypeTree,
                         TreeContent(DirTreeEntries(listed)))
    IN  IF walked.err # ""
        THEN [err |-> walked.err, sha |-> <<>>, objects |-> walked.objects]
        ELSE [err |-> "", sha |-> w.sha, objects |-> w.objects]

\* a faulty writeTree: the tree of what was walked is written although a
\* file or a directory below could not be read
writeTreeDespiteErrors(objs, wd, prefix) ==
    LET walked == WalkDir(objs, wd, prefix, SortedNames(DirNames(wd, prefix)), <<>>)
        w == writeObject(walked.objects, TypeTree,
                         TreeContent(DirTreeEntries(walked.entries)))
    IN  [err |-> "", sha |-> w.sha, objects |-> w.objects]

\* writeTree of the directory with the given prefix
writeTree(objs, wd, prefix) ==
    LET walked == WalkDir(objs, wd, prefix, SortedNames(DirNames(wd, prefix)), <<>>)
        w == writeObject(walked.objects, TypeTree,
                         TreeContent(DirTreeEntries(walked.entries)))
    IN  IF walked.err # ""
        THEN [err |-> walked.err, sha |-> <<>>, objects |-> walked.objects]
        ELSE [err |-> "", sha |-> w.sha, objects |-> w.objects]

(***************************************************************************)
(* Reference store                                                         *)
(***************************************************************************)
RefPrefix == <<114, 101, 102, 58, 32>>   \* "ref: "

\* "ref: refs/heads/main\n"
HeadContent ==
    <<114, 101, 102, 58, 32, 114, 101, 102, 115, 47, 104, 101, 97, 100, 115,
      47, 109, 97, 105, 110, 10>>

NoHead == [exists |-> FALSE, data |-> <<>>]

\* getCurrentBranchRef: ref is "" for a detached HEAD
getCurrentBranchRef(headFile) ==
    IF ~headFile.exists THEN [err |-> "NoHead", ref |-> <<>>]
    ELSE LET headContent == TrimSpace(headFile.data)
         IN  IF HasPrefix(headContent, RefPrefix)
             THEN [err |-> "",
                   ref |-> SubSeq(headContent, Len(RefPrefix) + 1, Len(headContent))]
             ELSE [err |-> "", ref |-> <<>>]

\* getCurrentCommit: sha is "" when the branch has no commit yet
getCurrentCommit(headFile, refFiles) ==
    LET b == getCurrentBranchRef(headFile)
    IN  IF b.err # "" THEN [err |-> b.err, sha |-> <<>>]
        ELSE IF b.ref = <<>> THEN [err |-> "", sha |-> TrimSpace(headFile.data)]
        ELSE IF b.ref \notin DOMAIN refFiles THEN [err |-> "", sha |-> <<>>]
        ELSE [err |-> "", sha |-> TrimSpace(refFiles[b.ref])]

\* a faulty updateBranchRef: the branch file is written whatever HEAD holds
updateBranchRefAnyHead(headFile, refFiles, commitSHA) ==
    LET b == getCurrentBranchRef(headFile)
    IN  IF b.err # "" THEN [err |-> b.err, refs |-> refFiles]
        ELSE [err |-> "",
              refs |-> (b.ref :> (commitSHA \o <<LF>>)) @@ refFiles]

\* updateBranchRef
updateBranchRef(headFile, refFiles, commitSHA) ==
    LET b == getCurrentBranchRef(headFile)
    IN  IF b.err # "" THEN [err |-> b.err, refs |-> refFiles]
        ELSE IF b.ref = <<>> THEN [err |-> "DetachedHead", refs |-> refFiles]
        ELSE [err |-> "",
              refs |-> (b.ref :> (commitSHA \o <<LF>>)) @@ refFiles]

(***************************************************************************)
(* Command handlers                                                        *)
(***************************************************************************)
\* a faulty handleCommit: every commit is written as a root commit
handleCommitRoot(objs, indexFile, headFile, refFiles, message, now) ==
    LET failed(e, o) == [err |-> e, sha |-> <<>>, objects |-> o,
                         refs |-> refFiles, index |-> indexFile]
        t == createTreeFromIndex(objs, indexFile)
        p == getCurrentCommit(headFile, refFiles)
        c == commitTree(t.objects, t.sha, <<>>, message, now)
        u == updateBranchRef(headFile, refFiles, c.sha)
    IN  IF t.err # "" THEN failed(t.err, objs)
        ELSE IF p.err # "" THEN failed(p.err, t.objects)
        ELSE IF c.err # "" THEN failed(c.err, t.objects)
        ELSE IF u.err # "" THEN failed(u.err, c.objects)
        ELSE [err |-> "", sha |-> c.sha, objects |-> c.objects,
              refs |-> u.refs, index |-> writeIndex(<<>>)]

\* a faulty handleCommit: the index is not reset
handleCommitKeepingIndex(objs, indexFile, headFile, refFiles, message, now) ==
    LET failed(e, o) == [err |-> e, sha |-> <<>>, objects |-> o,
                         refs |-> refFiles, index |-> indexFile]
        t == createTreeFromIndex(objs, indexFile)
        p == getCurrentCommit(headFile, refFiles)
        c == commitTree(t.objects, t.sha, p.sha, message, now)
        u == updateBranchRef(headFile, refFiles, c.sha)
    IN  IF t.err # "" THEN failed(t.err, objs)
        ELSE IF p.err # "" THEN failed(p.err, t.objects)
        ELSE IF c.err # "" THEN failed(c.err, t.objects)
        ELSE IF u.err # "" THEN failed(u.err, c.objects)
        ELSE [err |-> "", sha |-> c.sha, objects |-> c.objects,
              refs |-> u.refs, index |-> indexFile]

\* a faulty handleCommit: a tree that is the current commit's tree is not
\* committed again
handleCommitUnlessSameTree(objs, indexFile, headFile, refFiles, message, now) ==
    LET failed(e, o) == [err |-> e, sha |-> <<>>, objects |-> o,
                         refs |-> refFiles, index |-> indexFile]
        t == createTreeFromIndex(objs, indexFile)
        p == getCurrentCommit(headFile, refFiles)
        c == commitTree(t.objects, t.sha, p.sha, message, now)
        u == updateBranchRef(headFile, refFiles, c.sha)
    IN  IF t.err # "" THEN failed(t.err, objs)
        ELSE IF p.err # "" THEN failed(p.err, t.objects)
        ELSE IF p.sha # <<>>
                /\ parseCommit(p.sha, readObject(objs, p.sha).content).TreeSHA = t.sha
        THEN failed("NothingToCommit", t.objects)
        ELSE IF c.err # "" THEN failed(c.err, t.objects)
        ELSE IF u.err # "" THEN failed(u.err, c.objects)
        ELSE [err |-> "", sha |-> c.sha, objects |-> c.objects,
              refs |-> u.refs, index |-> writeIndex(<<>>)]

\* a faulty handleCommit: the branch is advanced to the tree of the commit
handleCommitRefToTree(objs, indexFile, headFile, refFiles, message, now) ==
    LET failed(e, o) == [err |-> e, sha |-> <<>>, objects |-> o,
                         refs |-> refFiles, index |-> indexFile]
        t == createTreeFromIndex(objs, indexFile)
        p == getCurrentCommit(headFile, refFiles)
        c == commitTree(t.objects, t.sha, p.sha, message, now)
        u == updateBranchRef(headFile, refFiles, t.sha)
    IN  IF t.err # "" THEN failed(t.err, objs)
        ELSE IF p.err # "" THEN failed(p.err, t.objects)
        ELSE IF c.err # "" THEN failed(c.err, t.objects)
        ELSE IF u.err # "" THEN failed(u.err, c.objects)
        ELSE [err |-> "", sha |-> c.sha, objects |-> c.objects,
              refs |-> u.refs, index |-> writeIndex(<<>>)]

\* handleCommit: tree from the index, commit on the current commit, branch
\* advanced, index reset; each step's failure returns with what the steps
\* before it have written
handleCommit(objs, indexFile, headFile, refFiles, message, now) ==
    LET failed(e, o) == [err |-> e, sha |-> <<>>, objects |-> o,
                         refs |-> refFiles, index |-> indexFile]
        t == createTreeFromIndex(objs, indexFile)
        p == getCurrentCommit(headFile, refFiles)
        c == commitTree(t.objects, t.sha, p.sha, message, now)
        u == updateBranchRef(headFile, refFiles, c.sha)
    IN  IF t.err # "" THEN failed(t.err, objs)
        ELSE IF p.err # "" THEN failed(p.err, t.objects)
        ELSE IF c.err # "" THEN failed(c.err, t.objects)
        ELSE IF u.err # "" THEN failed(u.err, c.objects)
        ELSE [err |-> "", sha |-> c.sha, objects |-> c.objects,
              refs |-> u.refs, index |-> writeIndex(<<>>)]

\* handleLog's loop from commitSHA, out being the commits displayed so far.
\* The loop has no cycle check: a walk longer than the number of stored
\* objects is on a cycle and never ends ("Diverges").
RECURSIVE LogWalk(_, _, _)
LogWalk(objs, commitSHA, out) ==
    IF commitSHA = <<>> THEN [err |-> "", out |-> out]
    ELSE IF Len(out) > Cardinality(DOMAIN objs) THEN [err |-> "Diverges", out |-> out]
    ELSE LET r == readObject(objs, commitSHA)
         IN  IF r.err # "" THEN [err |-> r.err, out |-> out]
             ELSE IF r.type # TypeCommit THEN [err |-> "NotACommit", out |-> out]
             ELSE LET commit == parseCommit(commitSHA, r.content)
                  IN  LogWalk(objs, commit.ParentSHA, Append(out, commit))

\* a faulty handleLog: the walk ends after the first commit
handleLogHeadOnly(objs, headFile, refFiles) ==
    LET cur == getCurrentCommit(headFile, refFiles)
    IN  IF cur.err # "" THEN [err |-> cur.err, out |-> <<>>]
        ELSE IF cur.sha = <<>> THEN [err |-> "", out |-> <<>>]
        ELSE LET r == readObject(objs, cur.sha)
             IN  IF r.err # "" THEN [err |-> r.err, out |-> <<>>]
                 ELSE IF r.type # TypeCommit THEN [err |-> "NotACommit", out |-> <<>>]
                 ELSE [err |-> "", out |-> <<parseCommit(cur.sha, r.content)>>]

\* handleLog: the commits displayed, in order
handleLog(objs, headFile, refFiles) ==
    LET cur == getCurrentCommit(headFile, refFiles)
    IN  IF cur.err # "" THEN [err |-> cur.err, out |-> <<>>]
        ELSE LogWalk(objs, cur.sha, <<>>)

(***************************************************************************)
(* Inputs of the model                                                     *)
(***************************************************************************)
MaxCommits == 2
MaxEntries == 2
MaxPlumbing == 2

PathA == <<97>>              \* "a"
PathB == <<98>>              \* "b"
PathC == <<99>>              \* "c", a file that never exists
PathDA == <<100, 47, 97>>    \* "d/a"
PathDB == <<100, 47, 98>>    \* "d/b"
PathEA == <<101, 47, 97>>    \* "e/a"
PathFF == <<255>>            \* a file name that is not UTF-8

\* a regular file: its bytes, whether an execute bit is set, and whether
\* os.ReadFile can read it
FileHi == [data |-> <<104, 105, 10>>, exec |-> FALSE, read |-> TRUE]   \* "hi\n"
FileRun == [data |-> <<>>, exec |-> TRUE, read |-> TRUE]   \* empty, executable
FileLocked == [data |-> <<104, 105, 10>>, exec |-> FALSE, read |-> FALSE]

\* what the file a can hold
FileVersions == {FileHi, FileRun}

NoFiles == [q \in {} |-> <<>>]

\* the working directories a run starts in: an empty one, one with the
\* file a, two with a file beside a directory, and one with a file whose
\* name is the byte 0xFF
WorkDirs ==
    {NoFiles,
     [q \in {PathA} |-> FileHi],
     [q \in {PathB, PathDB} |-> FileHi],
     [q \in {PathB, PathDA} |-> IF q = PathB THEN FileHi ELSE FileRun],
     [q \in {PathFF} |-> FileHi]}

\* the argument lists of add
AddArgs ==
    {<<PathA>>, <<PathB>>, <<PathDA>>, <<PathDB>>, <<PathFF>>, <<PathA, PathC>>}

\* the message of commit: " two \n"
Messages == {<<32, 116, 119, 111, 32, 10>>}

\* values of time.Now().Unix()
Clock == {1700000000}

ObjectTypes == {TypeBlob, TypeTree, TypeCommit}

\* contents written to the store directly: empty, one that starts with a
\* blank and a digit and ends with NUL, one with a newline and a byte
\* above 127, one of ten bytes
Contents ==
    {<<>>,
     <<32, 49, 0>>,
     <<10, 255>>,
     <<48, 49, 50, 51, 52, 53, 54, 55, 56, 57>>}

\* a well-formed hash in upper case
UpperSHA == [i \in 1..40 |-> 65]

\* forty characters, the last one no hex digit
NotAHash == SubSeq(EmptyTreeSHA, 1, 39) \o <<103>>

\* thirty-nine and forty-one hex characters
ShortHash == SubSeq(EmptyTreeSHA, 1, 39)

LongHash == EmptyTreeSHA \o <<48>>

\* hashes given to cat-file besides those of the stored objects
HashArgs == {UpperSHA, NotAHash, ShortHash, LongHash, <<>>}

TreeArgs == {EmptyTreeSHA, NotAHash, ShortHash}

ParentArgs == {<<>>, UpperSHA, NotAHash, ShortHash}

\* messages of commit-tree: that of commit, "first", the empty one, and
\* "x\n\nparent y"
PlumbingMessages ==
    Messages \cup {<<102, 105, 114, 115, 116>>,
                   <<>>,
                   <<120, 10, 10, 112, 97, 114, 101, 110, 116, 32, 121>>}

(***************************************************************************)
(* State                                                                   *)
(***************************************************************************)
VARIABLES
    objects,    \* .gvc/objects: hash -> the bytes of the object file
    index,      \* .gvc/index
    head,       \* .gvc/HEAD
    refs,       \* the files under .gvc: ref path -> content
    workdir,    \* the regular files of the working directory: path -> file
    last,       \* the last command run, its arguments and its outcome
    ncommits,   \* history: the commit commands that succeeded
    staged,     \* history: path -> what its latest successful add staged
                \*          since the last successful commit
    nplumbing,  \* history: the plumbing commands run and the faults met
    procs       \* the commands that run at the same time: process -> where
                \* it stands in its handler and what it holds in memory

vars == <<objects, index, head, refs, workdir, last, ncommits, staged, nplumbing,
          procs>>

\* no command runs beside the one an action models
NoProcs == [p \in {} |-> <<>>]

\* os.Stat(GvcDir) succeeds: something was created under .gvc
GvcExists ==
    head.exists \/ index.exists \/ DOMAIN objects # {} \/ DOMAIN refs # {}

Outcome(cmd, args, err, sha, out) ==
    [cmd |-> cmd, args |-> args, err |-> err, sha |-> sha, out |-> out]

\* before any command: no .gvc
Init ==
    /\ objects = NoFiles
    /\ index = NoIndex
    /\ head = NoHead
    /\ refs = NoFiles
    /\ workdir \in WorkDirs
    /\ last = Outcome("none", <<>>, "", <<>>, <<>>)
    /\ ncommits = 0
    /\ staged = NoFiles
    /\ nplumbing = 0
    /\ procs = NoProcs

\* the user rewrites the file a of the working directory
EditFile ==
    /\ PathA \in DOMAIN workdir
    /\ \E v \in FileVersions :
        /\ workdir[PathA] # v
        /\ workdir' = [workdir EXCEPT ![PathA] = v]
    /\ UNCHANGED <<objects, index, head, refs, last, ncommits, staged, nplumbing, procs>>

\* a faulty init: the branch file is created along with HEAD
InitializeWithBranch ==
    /\ IF GvcExists
       THEN /\ last' = Outcome("init", <<>>, "AlreadyInitialized", <<>>, <<>>)
            /\ UNCHANGED <<head, index, refs>>
       ELSE /\ head' = [exists |-> TRUE, data |-> HeadContent]
            /\ refs' = (getCurrentBranchRef(head').ref :> <<>>) @@ refs
            /\ index' = writeIndex(<<>>)
            /\ last' = Outcome("init", <<>>, "", <<>>, <<>>)
    /\ UNCHANGED <<objects, workdir, ncommits, staged, nplumbing, procs>>

\* gvc init (initializeRepo)
Initialize ==
    /\ IF GvcExists
       THEN /\ last' = Outcome("init", <<>>, "AlreadyInitialized", <<>>, <<>>)
            /\ UNCHANGED <<head, index>>
       ELSE /\ head' = [exists |-> TRUE, data |-> HeadContent]
            /\ index' = writeIndex(<<>>)
            /\ last' = Outcome("init", <<>>, "", <<>>, <<>>)
    /\ UNCHANGED <<objects, refs, workdir, ncommits, staged, nplumbing, procs>>

\* the entry of the latest add of each path of args, as the index is to
\* hold it
StagedBy(wd, args) ==
    [q \in {args[i] : i \in 1..Len(args)} |->
        [SHA |-> writeObject(NoFiles, TypeBlob, wd[q].data).sha,
         Mode |-> IF wd[q].exec THEN ModeExec ELSE ModeFile,
         Size |-> Len(wd[q].data)]]

\* gvc add <file>..., in an initialised repository
Add ==
    /\ head.exists
    /\ \E args \in AddArgs :
        LET r == handleAdd(objects, index, workdir, args)
        IN  /\ Len(r.index.entries) <= MaxEntries
            /\ objects' = r.objects
            /\ index' = r.index
            /\ last' = Outcome("add", <<>>, r.err, <<>>, <<>>)
            /\ staged' = IF r.err = "" THEN StagedBy(workdir, args) @@ staged
                         ELSE staged
    /\ UNCHANGED <<head, refs, workdir, ncommits, nplumbing, procs>>

\* gvc commit -m <message>, in an initialised repository
Commit ==
    /\ head.exists
    /\ \E message \in Messages, now \in Clock :
        LET r == handleCommit(objects, index, head, refs, message, now)
        IN  /\ r.err = "" => ncommits < MaxCommits
            /\ objects' = r.objects
            /\ refs' = r.refs
            /\ index' = r.index
            /\ last' = Outcome("commit", <<message>>, r.err, r.sha, <<>>)
            /\ ncommits' = IF r.err = "" THEN ncommits + 1 ELSE ncommits
            /\ staged' = IF r.err = "" THEN NoFiles ELSE staged
    /\ UNCHANGED <<head, workdir, nplumbing, procs>>

\* gvc log, in an initialised repository
Log ==
    /\ head.exists
    /\ LET r == handleLog(objects, head, refs)
       IN  last' = Outcome("log", <<>>, r.err, <<>>, r.out)
    /\ UNCHANGED <<objects, index, head, refs, workdir, ncommits, staged,
                   nplumbing, procs>>

\* gvc write-tree (handleWriteTree), in an initialised repository
WriteTree ==
    /\ head.exists
    /\ LET r == writeTree(objects, workdir, <<>>)
       IN  /\ objects' = r.objects
           /\ last' = Outcome("write-tree", <<>>, r.err, r.sha, <<>>)
    /\ UNCHANGED <<index, head, refs, workdir, ncommits, staged, nplumbing, procs>>

Next ==
    \/ EditFile
    \/ Initialize
    \/ Add
    \/ Commit
    \/ Log
    \/ WriteTree

Spec == Init /\ [][Next]_vars

(***************************************************************************)
(* The object store and the commit codec on their own                      *)
(***************************************************************************)
\* an initialised repository with nothing in it
InitPlumbing ==
    /\ objects = NoFiles
    /\ index = writeIndex(<<>>)
    /\ head = [exists |-> TRUE, data |-> HeadContent]
    /\ refs = NoFiles
    /\ workdir = NoFiles
    /\ last = Outcome("none", <<>>, "", <<>>, <<>>)
    /\ ncommits = 0
    /\ staged = NoFiles
    /\ nplumbing = 0
    /\ procs = NoProcs

\* writeObject applied to a type and a content
WriteObject ==
    /\ nplumbing < MaxPlumbing
    /\ \E objectType \in ObjectTypes, content \in Contents :
        LET r == writeObject(objects, objectType, content)
        IN  /\ objects' = r.objects
            /\ last' = Outcome("write-object", <<objectType, content>>, "",
                               r.sha, <<>>)
    /\ nplumbing' = nplumbing + 1
    /\ UNCHANGED <<index, head, refs, workdir, ncommits, staged, procs>>

\* gvc cat-file -p <hash> (catFile): the content it prints
catFile(objs, sha) ==
    LET r == readObject(objs, sha)
    IN  IF r.err # ""
        THEN Outcome("cat-file", <<sha>>, r.err, <<>>, <<>>)
        ELSE IF r.type \notin ObjectTypes
        THEN Outcome("cat-file", <<sha>>, "UnknownType", <<>>, <<>>)
        ELSE Outcome("cat-file", <<sha>>, "", <<>>, <<r.content>>)

\* gvc cat-file -p <hash> on a hash of the store or an ill-formed one
CatFile ==
    /\ \E sha \in DOMAIN objects \cup HashArgs :
        last' = catFile(objects, sha)
    /\ UNCHANGED <<objects, index, head, refs, workdir, ncommits, staged,
                   nplumbing, procs>>

\* gvc commit-tree <tree_sha> -p <parent_sha> -m <message> (handleCommitTree)
\* with its arguments drawn from the sets given
CommitTreeOf(trees, parents, messages) ==
    /\ nplumbing < MaxPlumbing
    /\ \E treeSHA \in trees, parentSHA \in parents,
          message \in messages, now \in Clock :
        LET r == commitTree(objects, treeSHA, parentSHA, message, now)
        IN  /\ objects' = r.objects
            /\ last' = Outcome("commit-tree", <<treeSHA, parentSHA, message>>,
                               r.err, r.sha, <<>>)
    /\ nplumbing' = nplumbing + 1
    /\ UNCHANGED <<index, head, refs, workdir, ncommits, staged, procs>>

CommitTree == CommitTreeOf(TreeArgs, ParentArgs, PlumbingMessages)

NextPlumbing ==
    \/ WriteObject
    \/ CatFile
    \/ CommitTree

SpecPlumbing == InitPlumbing /\ [][NextPlumbing]_vars

(***************************************************************************)
(* A repository whose HEAD is detached                                     *)
(***************************************************************************)
\* an initialised repository beside the file a
InitOneFile ==
    /\ objects = NoFiles
    /\ index = writeIndex(<<>>)
    /\ head = [exists |-> TRUE, data |-> HeadContent]
    /\ refs = NoFiles
    /\ workdir = [q \in {PathA} |-> FileHi]
    /\ last = Outcome("none", <<>>, "", <<>>, <<>>)
    /\ ncommits = 0
    /\ staged = NoFiles
    /\ nplumbing = 0
    /\ procs = NoProcs

\* no command writes a hash to HEAD: the user writes the current commit's
\* hash there by hand, the form getCurrentBranchRef reports as detached
DetachHead ==
    /\ head.exists
    /\ getCurrentBranchRef(head).ref # <<>>
    /\ getCurrentCommit(head, refs).sha # <<>>
    /\ head' = [exists |-> TRUE,
                data |-> getCurrentCommit(head, refs).sha \o <<LF>>]
    /\ last' = Outcome("detach", <<>>, "", <<>>, <<>>)
    /\ UNCHANGED <<objects, index, refs, workdir, ncommits, staged, nplumbing, procs>>

NextDetached ==
    \/ EditFile
    \/ Add
    \/ Commit
    \/ Log
    \/ DetachHead

SpecDetached == InitOneFile /\ [][NextDetached]_vars

(***************************************************************************)
(* A commit that is killed before it resets the index                      *)
(***************************************************************************)
\* gvc commit -m <message> killed between updateBranchRef (line 1220) and
\* writeIndex (line 1226): the objects and the branch file are written, the
\* index is not and nothing is printed
CommitInterrupted ==
    /\ head.exists
    /\ nplumbing < MaxPlumbing
    /\ \E message \in Messages, now \in Clock :
        LET r == handleCommit(objects, index, head, refs, message, now)
        IN  /\ r.err = ""
            /\ objects' = r.objects
            /\ refs' = r.refs
            /\ last' = Outcome("commit-killed", <<message>>, "", r.sha, <<>>)
    /\ nplumbing' = nplumbing + 1
    /\ UNCHANGED <<index, head, workdir, ncommits, staged, procs>>

NextInterrupt ==
    \/ EditFile
    \/ Add
    \/ Commit
    \/ Log
    \/ CommitInterrupted

SpecInterrupt == InitOneFile /\ [][NextInterrupt]_vars

(***************************************************************************)
(* Every command, and the killed commit, from before init                  *)
(***************************************************************************)
\* before any command: no .gvc, one file in the working directory
InitBare ==
    /\ objects = NoFiles
    /\ index = NoIndex
    /\ head = NoHead
    /\ refs = NoFiles
    /\ workdir = [q \in {PathA} |-> FileHi]
    /\ last = Outcome("none", <<>>, "", <<>>, <<>>)
    /\ ncommits = 0
    /\ staged = NoFiles
    /\ nplumbing = 0
    /\ procs = NoProcs

\* gvc commit-tree of the empty tree as a root commit or on top of the
\* commit HEAD resolves to
CommitTreeOnHead ==
    CommitTreeOf({EmptyTreeSHA}, {<<>>, getCurrentCommit(head, refs).sha},
                 Messages)

\* gvc cat-file -p of what HEAD resolves to: a commit, or the empty string
CatFileOfHead ==
    /\ last' = catFile(objects, getCurrentCommit(head, refs).sha)
    /\ UNCHANGED <<objects, index, head, refs, workdir, ncommits, staged,
                   nplumbing, procs>>

NextRefs ==
    \/ Initialize
    \/ Add
    \/ Commit
    \/ CommitInterrupted
    \/ Log
    \/ WriteTree
    \/ CommitTreeOnHead
    \/ CatFileOfHead

SpecRefs == InitBare /\ [][NextRefs]_vars

(***************************************************************************)
(* Two add commands that run at the same time                              *)
(***************************************************************************)
AddProcs == {1, 2}

\* the argument lists of the two commands: b, d/b, and b with a file that
\* does not exist
RaceArgs == {<<PathB>>, <<PathDB>>, <<PathB, PathC>>}

\* a process that has not started; seen and order are history: how many
\* commands had written the index when this one read it, and the rank of
\* its own write among the writes
IdleProc ==
    [pc |-> "idle", args |-> <<>>, entries |-> <<>>, err |-> "",
     seen |-> 0, order |-> 0]

\* the commands that have written the index
Writers == {q \in DOMAIN procs : procs[q].order > 0}

\* an initialised repository beside the files b and d/b, two commands about
\* to run
InitRace ==
    /\ objects = NoFiles
    /\ index = writeIndex(<<>>)
    /\ head = [exists |-> TRUE, data |-> HeadContent]
    /\ refs = NoFiles
    /\ workdir = [q \in {PathB, PathDB} |-> FileHi]
    /\ last = Outcome("none", <<>>, "", <<>>, <<>>)
    /\ ncommits = 0
    /\ staged = NoFiles
    /\ nplumbing = 0
    /\ procs = [p \in AddProcs |-> IdleProc]

\* handleAdd, line 1133: the index file is read into memory
AddReadIndex(p) ==
    /\ procs[p].pc = "idle"
    /\ \E args \in RaceArgs :
        procs' = [procs EXCEPT ![p] =
                    [@ EXCEPT !.pc = "loop", !.args = args,
                              !.entries = readIndex(index),
                              !.seen = Cardinality(Writers)]]
    /\ UNCHANGED <<objects, index, head, refs, workdir, last, ncommits, staged,
                   nplumbing>>

\* a faulty step: the index file is read again when the files are staged
AddStageFilesLate(p) ==
    /\ procs[p].pc = "loop"
    /\ LET r == AddLoop(objects, workdir, readIndex(index), procs[p].args, 1)
       IN  /\ objects' = r.objects
           /\ procs' = [procs EXCEPT ![p] =
                        IF r.err # ""
                        THEN [@ EXCEPT !.pc = "done", !.err = r.err]
                        ELSE [@ EXCEPT !.pc = "write", !.entries = r.entries]]
    /\ UNCHANGED <<index, head, refs, workdir, last, ncommits, staged, nplumbing>>

\* handleAdd, lines 1138-1182: a blob is written for every file and the
\* entries in memory are updated; a file that is missing ends the command
AddStageFiles(p) ==
    /\ procs[p].pc = "loop"
    /\ LET r == AddLoop(objects, workdir, procs[p].entries, procs[p].args, 1)
       IN  /\ objects' = r.objects
           /\ procs' = [procs EXCEPT ![p] =
                        IF r.err # ""
                        THEN [@ EXCEPT !.pc = "done", !.err = r.err]
                        ELSE [@ EXCEPT !.pc = "write", !.entries = r.entries]]
    /\ UNCHANGED <<index, head, refs, workdir, last, ncommits, staged, nplumbing>>

\* handleAdd, lines 1185-1190: the entries in memory replace the index
\* file and the command reports success
AddWriteIndex(p) ==
    /\ procs[p].pc = "write"
    /\ index' = writeIndex(procs[p].entries)
    /\ procs' = [procs EXCEPT ![p] =
                    [@ EXCEPT !.pc = "done", !.order = Cardinality(Writers) + 1]]
    /\ UNCHANGED <<objects, head, refs, workdir, last, ncommits, staged,
                   nplumbing>>

NextRace ==
    \E p \in AddProcs :
        \/ AddReadIndex(p)
        \/ AddStageFiles(p)
        \/ AddWriteIndex(p)

SpecRace == InitRace /\ [][NextRace]_vars

(***************************************************************************)
(* An add command that runs at the same time as a commit command           *)
(***************************************************************************)
\* the process of the commit command, and the process of the add command
CommitProc == 0

Adder == 1

\* what was staged, in one add, before the two commands start
StagedFirst == {<<PathA>>, <<PathA, PathDA>>}

\* a commit that has not started; seen and order are history as for add:
\* how many commands had written the index when this one read it, and the
\* rank of its own write among the writes
IdleCommit ==
    [pc |-> "idle", args |-> <<>>, entries |-> <<>>, err |-> "",
     seen |-> 0, order |-> 0, tree |-> <<>>, sha |-> <<>>]

\* an initialised repository beside the files a, d/a, b and d/b after an
\* add of a or of a and d/a, a commit and an add about to run
InitAddCommit ==
    /\ workdir = [q \in {PathA, PathDA, PathB, PathDB} |->
                    IF q = PathB THEN FileRun ELSE FileHi]
    /\ \E args \in StagedFirst :
        \E r \in {handleAdd(NoFiles, writeIndex(<<>>), workdir, args)} :
            /\ objects = r.objects
            /\ index = r.index
    /\ head = [exists |-> TRUE, data |-> HeadContent]
    /\ refs = NoFiles
    /\ last = Outcome("none", <<>>, "", <<>>, <<>>)
    /\ ncommits = 0
    /\ staged = NoFiles
    /\ nplumbing = 0
    /\ procs = [p \in {CommitProc, Adder} |->
                    IF p = CommitProc THEN IdleCommit ELSE IdleProc]

\* handleCommit, lines 1201-1205: the index file is read and its tree is
\* written
CommitBuildTree ==
    /\ procs[CommitProc].pc = "idle"
    /\ \E message \in Messages :
        LET t == createTreeFromIndex(objects, index)
        IN  /\ objects' = t.objects
            /\ procs' = [procs EXCEPT ![CommitProc] =
                        IF t.err # ""
                        THEN [@ EXCEPT !.pc = "done", !.err = t.err,
                                       !.args = <<message>>]
                        ELSE [@ EXCEPT !.pc = "commit", !.args = <<message>>,
                                       !.tree = t.sha,
                                       !.seen = Cardinality(Writers)]]
    /\ UNCHANGED <<index, head, refs, workdir, last, ncommits, staged, nplumbing>>

\* handleCommit, lines 1208-1217: the commit is written on the current one
CommitWriteCommit ==
    /\ procs[CommitProc].pc = "commit"
    /\ \E now \in Clock :
        LET p == getCurrentCommit(head, refs)
            c == commitTree(objects, procs[CommitProc].tree, p.sha,
                            procs[CommitProc].args[1], now)
        IN  IF p.err # "" \/ c.err # ""
            THEN /\ procs' = [procs EXCEPT ![CommitProc] =
                                [@ EXCEPT !.pc = "done",
                                          !.err = IF p.err # "" THEN p.err
                                                  ELSE c.err]]
                 /\ UNCHANGED objects
            ELSE /\ objects' = c.objects
                 /\ procs' = [procs EXCEPT ![CommitProc] =
                                [@ EXCEPT !.pc = "ref", !.sha = c.sha]]
    /\ UNCHANGED <<index, head, refs, workdir, last, ncommits, staged, nplumbing>>

\* handleCommit, lines 1220-1222: the branch is advanced
CommitUpdateRef ==
    /\ procs[CommitProc].pc = "ref"
    /\ LET u == updateBranchRef(head, refs, procs[CommitProc].sha)
       IN  /\ refs' = u.refs
           /\ procs' = [procs EXCEPT ![CommitProc] =
                        IF u.err # ""
                        THEN [@ EXCEPT !.pc = "done", !.err = u.err]
                        ELSE [@ EXCEPT !.pc = "reset"]]
    /\ UNCHANGED <<objects, index, head, workdir, last, ncommits, staged,
                   nplumbing>>

\* a faulty step: the index file is left as it is
CommitResetIndexSkipped ==
    /\ procs[CommitProc].pc = "reset"
    /\ procs' = [procs EXCEPT ![CommitProc] =
                    [@ EXCEPT !.pc = "done", !.order = Cardinality(Writers) + 1]]
    /\ UNCHANGED <<objects, index, head, refs, workdir, last, ncommits, staged,
                   nplumbing>>

\* handleCommit, lines 1225-1231: the index file is replaced by the empty
\* index and the command reports success
CommitResetIndex ==
    /\ procs[CommitProc].pc = "reset"
    /\ index' = writeIndex(<<>>)
    /\ procs' = [procs EXCEPT ![CommitProc] =
                    [@ EXCEPT !.pc = "done", !.order = Cardinality(Writers) + 1]]
    /\ UNCHANGED <<objects, head, refs, workdir, last, ncommits, staged,
                   nplumbing>>

NextAddCommit ==
    \/ AddReadIndex(Adder)
    \/ AddStageFiles(Adder)
    \/ AddWriteIndex(Adder)
    \/ CommitBuildTree
    \/ CommitWriteCommit
    \/ CommitUpdateRef
    \/ CommitResetIndex

SpecAddCommit == InitAddCommit /\ [][NextAddCommit]_vars

(***************************************************************************)
(* The tree codec on its own                                               *)
(***************************************************************************)
MaxTreeEntries == 2

\* modes without a space: a file, a directory, the empty string
EntryModes == {ModeFile, ModeDir, <<>>}

\* names without NUL: "a b" and the empty string
EntryNames == {<<97, 32, 98>>, <<>>}

\* a hash whose twenty bytes are spaces and NULs
SpaceNulSHA == [i \in 1..40 |-> IF i % 4 = 1 THEN 50 ELSE 48]

EntryHashes == {EmptyTreeSHA, SpaceNulSHA}

TreeEntries ==
    [Mode : EntryModes, Name : EntryNames, SHA : EntryHashes]

\* the sequences of at most MaxTreeEntries entries
TreeInputs ==
    UNION {[1..n -> TreeEntries] : n \in 0..MaxTreeEntries}

\* parseTreeEntries applied, once in a run, to the first cut bytes of the
\* content that the loop of lines 1017-1025 writes for entries
ParseTreeEntries ==
    /\ last.cmd = "none"
    /\ \E entries \in TreeInputs :
        \E cut \in 0..Len(TreeContent(entries)) :
            LET r == parseTreeEntries(SubSeq(TreeContent(entries), 1, cut))
            IN  last' = Outcome("parse-tree", <<entries, cut>>, r.err, <<>>,
                                IF r.err = "" THEN r.entries ELSE <<>>)
    /\ UNCHANGED <<objects, index, head, refs, workdir, ncommits, staged,
                   nplumbing, procs>>

NextTreeCodec == ParseTreeEntries

SpecTreeCodec == InitPlumbing /\ [][NextTreeCodec]_vars

(***************************************************************************)
(* Working directories with a file that cannot be read                     *)
(***************************************************************************)
\* a file beside a directory, all readable; a file beside a directory
\* whose file cannot be read; a directory that can be walked before one
\* whose file cannot be read
WalkDirs ==
    {[q \in {PathA, PathDA} |-> IF q = PathA THEN FileHi ELSE FileRun],
     [q \in {PathA, PathDB} |-> IF q = PathA THEN FileHi ELSE FileLocked],
     [q \in {PathDA, PathEA} |-> IF q = PathDA THEN FileHi ELSE FileLocked]}

\* an initialised repository in one of these directories
InitWalk ==
    /\ objects = NoFiles
    /\ index = writeIndex(<<>>)
    /\ head = [exists |-> TRUE, data |-> HeadContent]
    /\ refs = NoFiles
    /\ workdir \in WalkDirs
    /\ last = Outcome("none", <<>>, "", <<>>, <<>>)
    /\ ncommits = 0
    /\ staged = NoFiles
    /\ nplumbing = 0
    /\ procs = NoProcs

\* the commands that read the working directory, and edits of it
NextWalk ==
    \/ EditFile
    \/ Add
    \/ WriteTree

SpecWalk == InitWalk /\ [][NextWalk]_vars

(***************************************************************************)
(* The object store under faults of the file system                        *)
(***************************************************************************)
\* what a lying header declares for a content of n bytes
WrongLengths(n) == {n + 1, 10 * n + 7} \cup (IF n > 0 THEN {n - 1} ELSE {})

\* a crash in the middle of os.WriteFile (line 656), or a disk fault, leaves
\* a proper prefix of an object file
Truncate ==
    /\ nplumbing < MaxPlumbing
    /\ \E sha \in DOMAIN objects :
        \E n \in 0..(Len(objects[sha]) - 1) :
            /\ objects' = [objects EXCEPT ![sha] = SubSeq(@, 1, n)]
            /\ last' = Outcome("truncate", <<sha, n>>, "", <<>>, <<>>)
    /\ nplumbing' = nplumbing + 1
    /\ UNCHANGED <<index, head, refs, workdir, ncommits, staged, procs>>

\* an object file is replaced by a well-formed zlib stream whose header
\* declares another length than the content has
Tamper ==
    /\ nplumbing < MaxPlumbing
    /\ \E sha \in DOMAIN objects, objectType \in ObjectTypes,
          content \in Contents :
        \E n \in WrongLengths(Len(content)) :
            /\ objects' = [objects EXCEPT
                            ![sha] = Compress(Header(objectType, n) \o content)]
            /\ last' = Outcome("tamper", <<sha, n>>, "", <<>>, <<>>)
    /\ nplumbing' = nplumbing + 1
    /\ UNCHANGED <<index, head, refs, workdir, ncommits, staged, procs>>

NextFaults ==
    \/ WriteObject
    \/ CatFile
    \/ Truncate
    \/ Tamper

SpecFaults == InitPlumbing /\ [][NextFaults]_vars

(***************************************************************************)
(* Properties                                                              *)
(***************************************************************************)
\* C1: for every object type t and content c, writing (t, c) again returns
\* the hash the first write returned, and reading that hash returns exactly
\* (t, c), before and after the second write.
C1_WriteTwiceReadBack ==
    last.cmd = "write-object" =>
        LET t == last.args[1]
            c == last.args[2]
            again == writeObject(objects, t, c)
            read == [err |-> "", type |-> t, content |-> c]
        IN  /\ again.sha = last.sha
            /\ readObject(objects, last.sha) = read
            /\ readObject(again.objects, again.sha) = read

\* C1 happens: the second write of a run stored a tree object whose content
\* starts with a blank and ends with NUL
C1_Witness ==
    /\ last.cmd = "write-object"
    /\ last.args = <<TypeTree, <<32, 49, 0>>>>
    /\ nplumbing = 2
    /\ last.sha \in DOMAIN objects

\* C2: a successful commit -m m writes a commit object whose parent is what
\* getCurrentCommit returned just before the command (empty while the branch
\* file does not exist), whose tree is the tree built from the index as it
\* was, and whose message text is m (parsed back: m trimmed); afterwards
\* getCurrentCommit returns the new commit's hash.
C2_CommitExtendsHistory ==
    [][(last' # last /\ last'.cmd = "commit" /\ last'.err = "") =>
        LET m == last'.args[1]
            before == getCurrentCommit(head, refs)
            branch == getCurrentBranchRef(head)
            tree == createTreeFromIndex(objects, index)
            r == readObject(objects', last'.sha)
        IN  /\ Len(readIndex(index)) > 0
            /\ branch.err = "" /\ branch.ref # <<>>
            /\ branch.ref \notin DOMAIN refs => before.sha = <<>>
            /\ tree.sha \in DOMAIN objects'
            /\ \E now \in Clock :
                /\ r = [err |-> "", type |-> TypeCommit,
                        content |-> CommitContent(tree.sha, before.sha, m, now)]
                /\ parseCommit(last'.sha, r.content)
                    = [SHA |-> last'.sha,
                       TreeSHA |-> tree.sha,
                       ParentSHA |-> before.sha,
                       Author |-> AuthorIdent,
                       Message |-> TrimSpace(m),
                       Timestamp |-> <<now>>]
            /\ getCurrentCommit(head', refs') = [err |-> "", sha |-> last'.sha]
    ]_vars

\* C2 happens: the second commit of a run succeeded and has a parent
C2_Witness ==
    /\ last.cmd = "commit"
    /\ last.err = ""
    /\ ncommits = 2
    /\ parseCommit(last.sha, readObject(objects, last.sha).content).ParentSHA # <<>>

\* C3: once a commit has succeeded and no add has succeeded since, the
\* index holds no entries and a commit, whatever its message, fails with
\* EmptyIndex.
C3_CommitAfterCommitFails ==
    (ncommits > 0 /\ staged = NoFiles) =>
        /\ index.exists
        /\ Len(readIndex(index)) = 0
        /\ \A message \in Messages, now \in Clock :
            handleCommit(objects, index, head, refs, message, now).err
                = "EmptyIndex"

\* C3 happens: a commit run after a successful commit, with no add in
\* between, has failed with EmptyIndex
C3_Witness ==
    /\ last.cmd = "commit"
    /\ last.err = "EmptyIndex"
    /\ ncommits > 0
    /\ staged = NoFiles

\* C4: after N successful commits log ends without error having displayed
\* exactly N distinct commits: the current commit first, each one followed
\* by its parent, the last one (and only that one) without a parent; none
\* when N = 0.
C4_LogVisitsEveryCommit ==
    last.cmd = "log" =>
        LET out == last.out
            n == Len(out)
        IN  /\ last.err = ""
            /\ n = ncommits
            /\ n > 0 => out[1].SHA = getCurrentCommit(head, refs).sha
            /\ \A i \in 1..(n - 1) :
                out[i].ParentSHA # <<>> /\ out[i].ParentSHA = out[i + 1].SHA
            /\ n > 0 => out[n].ParentSHA = <<>>
            /\ \A i, j \in 1..n : out[i].SHA = out[j].SHA => i = j

\* C4 happens: log has displayed two commits
C4_Witness ==
    /\ last.cmd = "log"
    /\ ncommits = 2
    /\ Len(last.out) = 2

\* C5: commit fails with EmptyIndex exactly when the index holds no entry,
\* and then it writes no object and leaves the branch files and the index
\* as they were (HEAD is written by no step of commit).
C5_EmptyIndexRefused ==
    \A message \in Messages, now \in Clock :
        LET r == handleCommit(objects, index, head, refs, message, now)
        IN  /\ (r.err = "EmptyIndex") <=> (Len(readIndex(index)) = 0)
            /\ r.err = "EmptyIndex" =>
                /\ r.objects = objects
                /\ r.refs = refs
                /\ r.index = index
                /\ r.sha = <<>>

\* C5 happens: the first commit of a repository that already stores an
\* object has failed with EmptyIndex
C5_Witness ==
    /\ last.cmd = "commit"
    /\ last.err = "EmptyIndex"
    /\ ncommits = 0
    /\ DOMAIN objects # {}

\* C6: the persisted index holds at most one entry per path, and for every
\* path added successfully since the last successful commit its entry
\* carries the hash, mode and size of the latest such add.
C6_OneEntryPerPathLastWriteWins ==
    LET entries == readIndex(index)
    IN  /\ \A i, j \in 1..Len(entries) :
            entries[i].Path = entries[j].Path => i = j
        /\ \A q \in DOMAIN staged :
            \E i \in 1..Len(entries) :
                /\ entries[i].Path = q
                /\ entries[i].SHA = staged[q].SHA
                /\ entries[i].Mode = staged[q].Mode
                /\ entries[i].Size = staged[q].Size

\* C7: every tree object of the store lists its entries in ascending
\* byte-wise order of name.
C7_TreeEntriesAscending ==
    \A sha \in DOMAIN objects :
        LET r == readObject(objects, sha)
        IN  (r.err = "" /\ r.type = TypeTree) =>
                LET p == parseTreeEntries(r.content)
                IN  /\ p.err = ""
                    /\ \A i \in 1..(Len(p.entries) - 1) :
                        ~StrLess(p.entries[i + 1].Name, p.entries[i].Name)

\* C8: within every tree object of the store the entry names are unique.
C8_TreeNamesUnique ==
    \A sha \in DOMAIN objects :
        LET r == readObject(objects, sha)
        IN  (r.err = "" /\ r.type = TypeTree) =>
                LET p == parseTreeEntries(r.content)
                IN  /\ p.err = ""
                    /\ \A i, j \in 1..Len(p.entries) :
                        p.entries[i].Name = p.entries[j].Name => i = j

\* C9 as stated: write-tree in an empty directory yields the empty tree,
\* and so does building the tree of an index without entries.
C9_EmptyInputsYieldEmptyTree ==
    /\ (last.cmd = "write-tree" /\ workdir = NoFiles) =>
        last.err = "" /\ last.sha = EmptyTreeSHA
    /\ (head.exists /\ Len(readIndex(index)) = 0) =>
        LET t == createTreeFromIndex(objects, index)
        IN  t.err = "" /\ t.sha = EmptyTreeSHA

\* C9 amended: write-tree in an empty directory succeeds and stores the
\* empty tree object under 4b825dc642cb6eb9a060e54bf8d69288fbee4904;
\* building the tree of an index without entries fails with EmptyIndex and
\* writes no object.
C9_EmptyDirectoryYieldsEmptyTree ==
    /\ (last.cmd = "write-tree" /\ workdir = NoFiles) =>
        /\ last.err = ""
        /\ last.sha = EmptyTreeSHA
        /\ readObject(objects, EmptyTreeSHA)
            = [err |-> "", type |-> TypeTree, content |-> <<>>]
    /\ Len(readIndex(index)) = 0 =>
        createTreeFromIndex(objects, index)
            = [err |-> "EmptyIndex", sha |-> <<>>, objects |-> objects]

\* C9 happens: write-tree has run in an empty directory while the index
\* held no entry
C9_Witness ==
    /\ last.cmd = "write-tree"
    /\ workdir = NoFiles
    /\ index.exists
    /\ Len(readIndex(index)) = 0
    /\ EmptyTreeSHA \in DOMAIN objects

\* C10: for a well-formed tree hash, a parent that is empty or a
\* well-formed hash, and any message, parseCommit of the object commitTree
\* wrote recovers the tree hash and the parent hash exactly and the message
\* trimmed; a root commit has no parent line.
C10_CommitRoundTrip ==
    (last.cmd = "commit-tree" /\ last.err = "") =>
        LET r == readObject(objects, last.sha)
            commit == parseCommit(last.sha, r.content)
        IN  /\ r.err = "" /\ r.type = TypeCommit
            /\ commit.SHA = last.sha
            /\ commit.TreeSHA = last.args[1]
            /\ commit.ParentSHA = last.args[2]
            /\ commit.Message = TrimSpace(last.args[3])
            /\ last.args[2] = <<>> =>
                HasPrefix(Split(r.content, LF)[2], KeyAuthor \o <<SP>>)

\* C10 happens: commit-tree has written a commit with a parent and a
\* message that has blanks around it
C10_Witness ==
    /\ last.cmd = "commit-tree"
    /\ last.err = ""
    /\ last.args[2] = UpperSHA
    /\ last.args[3] = <<32, 116, 119, 111, 32, 10>>

\* C11: reading an object file that was truncated, or whose header
\* declares another length than its content has, fails with Corrupt; a
\* read that succeeds returns the type and content whose encoding the file
\* holds, so the content has the declared length.
C11_DamagedObjectIsCorrupt ==
    /\ last.cmd \in {"truncate", "tamper"} =>
        readObject(objects, last.args[1]) = Fail("Corrupt")
    /\ \A sha \in DOMAIN objects :
        LET r == readObject(objects, sha)
        IN  IF r.err = ""
            THEN objects[sha] = Compress(Header(r.type, Len(r.content)) \o r.content)
            ELSE r = Fail("Corrupt")
    /\ (last.cmd = "cat-file" /\ last.err = "") =>
        objects[last.args[1]]
            = Compress(Header(readObject(objects, last.args[1]).type,
                              Len(last.out[1])) \o last.out[1])

\* C11 happens: cat-file has failed with Corrupt on an object file that
\* lacks its last byte
C11_Witness ==
    /\ last.cmd = "cat-file"
    /\ last.err = "Corrupt"
    /\ \E objectType \in ObjectTypes, content \in Contents :
        LET whole == Compress(Header(objectType, Len(content)) \o content)
        IN  objects[last.args[1]] = SubSeq(whole, 1, Len(whole) - 1)

\* C12: cat-file of h fails with InvalidHash whenever h is not exactly 40
\* hex characters and with NotFound when h is well formed and nothing is
\* stored under it, and it writes nothing; commit-tree fails with
\* InvalidHash exactly when the tree hash is malformed or the parent is
\* neither empty nor well formed, and then it writes no object.
C12_HashesValidatedFirst ==
    [][LET hex == (48..57) \cup (97..102) \cup (65..70)
           wellFormed(h) == Len(h) = 40 /\ \A i \in 1..Len(h) : h[i] \in hex
       IN  /\ last'.cmd = "cat-file" =>
                LET h == last'.args[1]
                IN  /\ ~wellFormed(h) => last'.err = "InvalidHash"
                    /\ (wellFormed(h) /\ h \notin DOMAIN objects) =>
                            last'.err = "NotFound"
                    /\ (wellFormed(h) /\ h \in DOMAIN objects) =>
                            last'.err \notin {"InvalidHash", "NotFound"}
                    /\ objects' = objects
           /\ (last'.cmd = "commit-tree" /\ nplumbing' # nplumbing) =>
                LET t == last'.args[1]
                    p == last'.args[2]
                IN  /\ (last'.err = "InvalidHash")
                            <=> (~wellFormed(t) \/ (p # <<>> /\ ~wellFormed(p)))
                    /\ last'.err = "InvalidHash" =>
                            objects' = objects /\ last'.sha = <<>>
                    /\ last'.err # "InvalidHash" =>
                            /\ last'.err = ""
                            /\ last'.sha \in DOMAIN objects'
                            /\ last'.sha \notin DOMAIN objects =>
                                    DOMAIN objects' = DOMAIN objects \cup {last'.sha}
    ]_vars

\* C12 happens: with an object in the store, commit-tree was refused for a
\* parent of thirty-nine hex characters under a well-formed tree hash
C12_Witness ==
    /\ last.cmd = "commit-tree"
    /\ last.err = "InvalidHash"
    /\ last.args[1] = EmptyTreeSHA
    /\ last.args[2] = ShortHash
    /\ DOMAIN objects # {}

\* C13: while HEAD holds a commit hash instead of "ref: <path>",
\* updateBranchRef fails with DetachedHead and returns the branch files as
\* they were; a commit run then over an index with entries fails with
\* DetachedHead and leaves HEAD, the branch files and the index unchanged,
\* and the tree object and the commit object (its parent the hash in HEAD)
\* that it wrote are in the store.
C13_DetachedHeadRefusesAdvance ==
    [][LET b == getCurrentBranchRef(head)
       IN  (head.exists /\ b.err = "" /\ b.ref = <<>>) =>
            /\ \A sha \in DOMAIN objects :
                updateBranchRef(head, refs, sha)
                    = [err |-> "DetachedHead", refs |-> refs]
            /\ (last'.cmd = "commit" /\ workdir' = workdir
                    /\ Len(readIndex(index)) > 0) =>
                /\ last'.err = "DetachedHead"
                /\ head' = head
                /\ refs' = refs
                /\ index' = index
                /\ \E tree, commit \in DOMAIN objects', now \in Clock :
                    /\ tree = createTreeFromIndex(objects, index).sha
                    /\ readObject(objects', tree).type = TypeTree
                    /\ readObject(objects', commit)
                        = [err |-> "", type |-> TypeCommit,
                           content |-> CommitContent(tree, TrimSpace(head.data),
                                                     last'.args[1], now)]
    ]_vars

\* C13 happens: a commit over a staged file has failed with DetachedHead
\* after a first commit had been made on the branch
C13_Witness ==
    /\ last.cmd = "commit"
    /\ last.err = "DetachedHead"
    /\ ncommits = 1
    /\ getCurrentBranchRef(head).ref = <<>>
    /\ Len(readIndex(index)) > 0
    /\ Cardinality({sha \in DOMAIN objects :
                        readObject(objects, sha).type = TypeCommit}) = 2

\* C14: no step removes an object from the store or changes the type and
\* content read back for a stored hash, and writing the type and content
\* that a stored hash reads back to leaves the store as it is.
C14_ObjectsImmutable ==
    /\ [](\A sha \in DOMAIN objects :
            \E r \in {readObject(objects, sha)} :
                /\ r.err = ""
                /\ writeObject(objects, r.type, r.content)
                    = [sha |-> sha, objects |-> objects])
    /\ [][objects' # objects =>
            \A sha \in DOMAIN objects :
                /\ sha \in DOMAIN objects'
                /\ readObject(objects', sha) = readObject(objects, sha)
       ]_vars

\* C14 happens: after one commit of the file a, write-tree has written the
\* blob and the tree again and the store holds three objects as before
C14_Witness ==
    /\ last.cmd = "write-tree"
    /\ ncommits = 1
    /\ DOMAIN workdir = {PathA}
    /\ Cardinality(DOMAIN objects) = 3
    /\ last.sha \in DOMAIN objects

\* C15: a commit killed after the branch file was written leaves the
\* staged entries in the index and the branch at the commit it wrote; the
\* commit run next, with no add in between, succeeds and advances the branch
\* to a new commit that has the same tree and the killed commit as parent.
C15_InterruptedCommitIsRecommitted ==
    /\ [](last.cmd = "commit-killed" =>
            /\ Len(readIndex(index)) > 0
            /\ getCurrentCommit(head, refs) = [err |-> "", sha |-> last.sha])
    /\ [][
           /\ (last'.cmd = "commit-killed" /\ nplumbing' # nplumbing) =>
                index' = index
           /\ (last.cmd = "commit-killed" /\ last'.cmd = "commit") =>
                /\ last'.err = ""
                /\ last'.sha # last.sha
                /\ getCurrentCommit(head', refs') = [err |-> "", sha |-> last'.sha]
                /\ \E killed \in {parseCommit(last.sha,
                                              readObject(objects, last.sha).content)},
                      new \in {parseCommit(last'.sha,
                                           readObject(objects', last'.sha).content)} :
                    /\ new.TreeSHA = killed.TreeSHA
                    /\ new.TreeSHA = createTreeFromIndex(objects, index).sha
                    /\ new.ParentSHA = last.sha
                /\ Len(readIndex(index')) = 0
       ]_vars

\* C15 happens: the first commit command to end has written a commit with
\* a parent, the commit a killed command had written for the same tree
C15_Witness ==
    /\ last.cmd = "commit"
    /\ last.err = ""
    /\ ncommits = 1
    /\ \E new \in {parseCommit(last.sha, readObject(objects, last.sha).content)} :
        /\ new.ParentSHA \in DOMAIN objects
        /\ parseCommit(new.ParentSHA,
                       readObject(objects, new.ParentSHA).content).TreeSHA
            = new.TreeSHA

\* C16: when two add commands for different paths have both reported
\* success and the one that wrote the index last had read it before the
\* other wrote, the index holds the last writer's entry and nothing else:
\* the first writer's entry is lost. (When it had read the index after the
\* other's write, both entries are there.)
C16_ConcurrentAddLosesEntry ==
    \A first, second \in DOMAIN procs :
        (/\ procs[first].pc = "done" /\ procs[first].err = ""
         /\ procs[second].pc = "done" /\ procs[second].err = ""
         /\ procs[first].order = 1 /\ procs[second].order = 2
         /\ procs[first].args # procs[second].args) =>
            LET paths == {readIndex(index)[i].Path :
                            i \in 1..Len(readIndex(index))}
            IN  IF procs[second].seen = 0
                THEN /\ paths = {procs[second].args[1]}
                     /\ Len(readIndex(index)) = 1
                     /\ procs[first].args[1] \notin paths
                ELSE paths = {procs[first].args[1], procs[second].args[1]}

\* C16 happens: add b and add d/b have both reported success, d/b wrote
\* last having read the index before b was written, and b is not staged
C16_Witness ==
    /\ \A p \in AddProcs : procs[p].pc = "done" /\ procs[p].err = ""
    /\ procs[1].args = <<PathB>> /\ procs[1].order = 1
    /\ procs[2].args = <<PathDB>> /\ procs[2].order = 2
    /\ procs[2].seen = 0
    /\ \A i \in 1..Len(readIndex(index)) : readIndex(index)[i].Path # PathB

\* C17: every commit object of the store has a parent hash that is empty
\* or the hash of another commit object of the store (objects are never
\* removed, so one that was there when the commit was written still is).
C17_ParentsAreStoredCommits ==
    \A sha \in DOMAIN objects :
        \E r \in {readObject(objects, sha)} :
            (r.err = "" /\ r.type = TypeCommit) =>
                \E parent \in {parseCommit(sha, r.content).ParentSHA} :
                    IF parent = <<>> THEN TRUE
                    ELSE /\ parent # sha
                         /\ parent \in DOMAIN objects
                         /\ readObject(objects, parent).type = TypeCommit

\* C18: for entries whose modes hold no space and whose names hold no NUL,
\* parsing the concatenation of mode, space, name, NUL and the 20 hash bytes
\* of each entry returns the entries in order with their modes, names and
\* hashes, typed tree exactly for mode "40000" and blob otherwise; parsing
\* the concatenation cut inside an entry (before its space, before its NUL
\* or with fewer than 20 bytes left for its hash) fails with MalformedTree,
\* and cut between two entries it returns the entries before the cut.
C18_TreeCodecRoundTrip ==
    last.cmd = "parse-tree" =>
        LET entries == last.args[1]
            cut == last.args[2]
            size(e) == Len(e.Mode) + 1 + Len(e.Name) + 1 + 20
            ends == {SumOf([i \in 1..k |-> size(entries[i])]) :
                        k \in 0..Len(entries)}
        IN  IF cut \in ends
            THEN /\ last.err = ""
                 /\ SumOf([i \in 1..Len(last.out) |-> size(entries[i])]) = cut
                 /\ \A i \in 1..Len(last.out) :
                        last.out[i]
                            = [Mode |-> entries[i].Mode,
                               Name |-> entries[i].Name,
                               SHA |-> entries[i].SHA,
                               Type |-> IF entries[i].Mode = <<52, 48, 48, 48, 48>>
                                        THEN TypeTree ELSE TypeBlob]
            ELSE last.err = "MalformedTree"

\* C18 happens: two entries, a directory named "a b" and a file with an
\* empty name whose hash bytes are spaces and NULs, were parsed back whole
C18_Witness ==
    /\ last.cmd = "parse-tree"
    /\ last.err = ""
    /\ Len(last.out) = 2
    /\ last.out[1].Type = TypeTree
    /\ last.out[1].Name = <<97, 32, 98>>
    /\ last.out[2].Type = TypeBlob
    /\ last.out[2].Name = <<>>
    /\ last.out[2].SHA = SpaceNulSHA

\* C19: write-tree writes the objects of a directory before the directory's
\* own tree. Started on an empty store, at every level of the working
\* directory: when the walk of the level ends, each entry gathered names an
\* object of the store, a blob for a file and a tree for a sub-directory,
\* and the level's tree is the one object written after that; when a file
\* or a sub-directory of the level cannot be read, the level fails, nothing
\* is written after the failure, and the only trees in the store are those
\* of directories below the level that were walked whole. write-tree
\* reports what the walk of the top level gives.
C19_TreesWrittenPostOrder ==
    /\ [](\E below \in {UNION {{SubSeq(q, 1, i) : i \in 1..Len(q)} :
                                q \in DOMAIN workdir}} :
          \A prefix \in {<<>>} \cup {d \in below : d[Len(d)] = Slash} :
            \E walked \in {WalkDir(NoFiles, workdir, prefix,
                                   SortedNames(DirNames(workdir, prefix)), <<>>)},
               level \in {writeTree(NoFiles, workdir, prefix)} :
                IF walked.err = ""
                THEN /\ level.err = ""
                     /\ {walked.entries[i].Name : i \in 1..Len(walked.entries)}
                            = DirNames(workdir, prefix) \ {GvcDir}
                     /\ \A i \in 1..Len(walked.entries) :
                            \E e \in {walked.entries[i]} :
                                /\ e.SHA \in DOMAIN walked.objects
                                /\ readObject(walked.objects, e.SHA).type
                                    = IF prefix \o e.Name \in DOMAIN workdir
                                      THEN TypeBlob ELSE TypeTree
                     /\ level.sha \notin DOMAIN walked.objects
                     /\ DOMAIN level.objects
                            = DOMAIN walked.objects \cup {level.sha}
                     /\ readObject(level.objects, level.sha).type = TypeTree
                ELSE /\ level.err = "ReadFailed"
                     /\ level.sha = <<>>
                     /\ level.objects = walked.objects
                     /\ \A sha \in DOMAIN level.objects :
                            readObject(level.objects, sha).type = TypeTree =>
                                \E deeper \in below :
                                    /\ HasPrefix(deeper, prefix)
                                    /\ deeper # prefix
                                    /\ deeper[Len(deeper)] = Slash
                                    /\ \E sub \in {writeTree(NoFiles, workdir,
                                                             deeper)} :
                                        sub.err = "" /\ sub.sha = sha)
    /\ [][(last'.cmd = "write-tree" /\ workdir' = workdir) =>
            \E r \in {writeTree(NoFiles, workdir, <<>>)} :
                /\ last'.err = r.err
                /\ last'.sha = r.sha
                /\ DOMAIN objects' = DOMAIN objects \cup DOMAIN r.objects
       ]_vars

\* C19 happens: write-tree has failed in the directory whose files are d/a
\* and the unreadable e/a, and the store holds the blob and the tree of d
\* and no other object
C19_Witness ==
    /\ last.cmd = "write-tree"
    /\ last.err = "ReadFailed"
    /\ DOMAIN workdir = {PathDA, PathEA}
    /\ Cardinality(DOMAIN objects) = 2
    /\ \E sha \in DOMAIN objects :
        readObject(objects, sha) = [err |-> "", type |-> TypeTree,
                                    content |-> TreeContent(<<
                                        [Mode |-> ModeFile, Name |-> PathA,
                                         SHA |-> Sha1Hex(Header(TypeBlob, 3)
                                                         \o FileHi.data)]>>)]

\* C20 as stated: HEAD is changed only by a successful init, which writes
\* the symbolic reference to refs/heads/main; init leaves no branch file;
\* the branch file is changed only by a commit that succeeds
C20_RefsChangeOnlyBySuccessfulCommit ==
    [][
        /\ head' # head =>
            /\ last'.cmd = "init"
            /\ last'.err = ""
            /\ head' = [exists |-> TRUE, data |-> HeadContent]
        /\ refs' # refs =>
            /\ last'.cmd = "commit"
            /\ last'.err = ""
      ]_vars

\* C20: HEAD is changed only by a successful init, which writes the
\* symbolic reference to refs/heads/main and leaves no branch file; there
\* is no branch file before init; the branch file is changed only by a
\* commit that reaches its update of the reference, which is a commit that
\* succeeds or one cut short between that update and the reset of the
\* index, and it then holds that commit's hash and a line feed; add,
\* write-tree, commit-tree, log and cat-file change neither file
C20_ReferenceLifecycle ==
    /\ [](~head.exists => refs = NoFiles)
    /\ [][
            /\ head' # head =>
                /\ last'.cmd = "init"
                /\ last'.err = ""
                /\ ~head.exists
                /\ head' = [exists |-> TRUE, data |-> HeadContent]
            /\ (last'.cmd = "init" /\ last'.err = "") =>
                /\ head' # head
                /\ refs' = NoFiles
            /\ refs' # refs =>
                /\ last'.cmd \in {"commit", "commit-killed"}
                /\ last'.err = ""
                /\ head' = head
                /\ DOMAIN refs' = {getCurrentBranchRef(head).ref}
                /\ refs'[getCurrentBranchRef(head).ref] = last'.sha \o <<LF>>
            /\ (last'.cmd = "commit" /\ last'.err = "") => refs' # refs
            /\ last'.cmd \in {"add", "write-tree", "commit-tree", "log",
                              "cat-file"} =>
                /\ head' = head
                /\ refs' = refs
       ]_vars

\* C20 happens: after init and a first commit that succeeded, the branch
\* file holds that commit and HEAD is as init wrote it
C20_Witness ==
    /\ last.cmd = "commit"
    /\ last.err = ""
    /\ ncommits = 1
    /\ nplumbing = 0
    /\ head = [exists |-> TRUE, data |-> HeadContent]
    /\ DOMAIN refs = {getCurrentBranchRef(head).ref}
    /\ refs[getCurrentBranchRef(head).ref] = last.sha \o <<LF>>

\* C21: in every state reached by init, add, commit, log and write-tree
\* run one at a time, the branch file, when there is one, holds the hash of
\* a commit of the store and a line feed; the walk from it along parent
\* links ends, and every commit on it is a commit object of the store
\* whose tree is a tree object of the store; and no log fails.
C21_BranchHistoryIsStored ==
    /\ DOMAIN refs \subseteq {getCurrentBranchRef(head).ref}
    /\ \A b \in DOMAIN refs :
        \E r \in {LogWalk(objects, TrimSpace(refs[b]), <<>>)} :
            /\ refs[b] = TrimSpace(refs[b]) \o <<LF>>
            /\ validateSHA(TrimSpace(refs[b]))
            /\ r.err = ""
            /\ Len(r.out) >= 1
            /\ r.out[1].SHA = TrimSpace(refs[b])
            /\ \A i \in 1..Len(r.out) :
                \E c \in {readObject(objects, r.out[i].SHA)},
                   t \in {readObject(objects, r.out[i].TreeSHA)} :
                    /\ c.err = ""
                    /\ c.type = TypeCommit
                    /\ t.err = ""
                    /\ t.type = TypeTree
                    /\ i < Len(r.out) => r.out[i].ParentSHA = r.out[i + 1].SHA
                    /\ i = Len(r.out) => r.out[i].ParentSHA = <<>>
    /\ last.cmd = "log" => last.err = ""

\* C21 happens: log has walked from the branch file over a commit and its
\* parent
C21_Witness ==
    /\ last.cmd = "log"
    /\ last.err = ""
    /\ DOMAIN refs # {}
    /\ Len(last.out) = 2
    /\ last.out[1].ParentSHA = last.out[2].SHA
    /\ last.out[1].SHA \o <<LF>> = refs[getCurrentBranchRef(head).ref]

\* C22: add fails exactly when one of its paths is no file of the working
\* directory or cannot be read; it then leaves the index file as it was,
\* and the store as it was but for the blobs of the paths that come before
\* the first failing one. An add step that fails changes neither the index
\* nor what is staged, and removes no object.
C22_AddIsAllOrNothingOnIndex ==
    /\ [](\A args \in AddArgs :
            \E r \in {handleAdd(objects, index, workdir, args)},
               bad \in {{i \in 1..Len(args) :
                            IF args[i] \in DOMAIN workdir
                            THEN ~workdir[args[i]].read ELSE TRUE}} :
                /\ (r.err # "") <=> (bad # {})
                /\ r.err # "" =>
                    /\ r.index = index
                    /\ DOMAIN r.objects = DOMAIN objects \cup
                            {writeObject(NoFiles, TypeBlob,
                                         workdir[args[j]].data).sha :
                                j \in {k \in 1..Len(args) :
                                            \A i \in bad : k < i}}
                    /\ \A sha \in DOMAIN objects : r.objects[sha] = objects[sha])
    /\ [][(last'.cmd = "add" /\ last'.err # "") =>
            /\ index' = index
            /\ staged' = staged
            /\ DOMAIN objects \subseteq DOMAIN objects'
       ]_vars

\* C22 happens: an add has failed after it wrote the blob of the file a,
\* the only object of the store, and the index holds no entry
C22_Witness ==
    /\ last.cmd = "add"
    /\ last.err = "NotFound"
    /\ PathA \in DOMAIN workdir
    /\ DOMAIN objects = {writeObject(NoFiles, TypeBlob, workdir[PathA].data).sha}
    /\ index = writeIndex(<<>>)
    /\ staged = NoFiles

\* C23: when a commit and an add of files that were not staged have run at
\* the same time and both report success, the entries of the add are
\* neither in the tree of the commit nor in the index exactly when the add
\* wrote the index after the commit read it to build its tree and before
\* the commit reset it; the index is then empty.
C23_AddRacingCommitIsDropped ==
    (/\ DOMAIN procs = {CommitProc, Adder}
     /\ procs[CommitProc].pc = "done" /\ procs[CommitProc].err = ""
     /\ procs[Adder].pc = "done" /\ procs[Adder].err = "") =>
        \E commit \in {parseCommit(procs[CommitProc].sha,
                            readObject(objects, procs[CommitProc].sha).content)} :
        \E tree \in {parseTreeEntries(readObject(objects, commit.TreeSHA).content)} :
            LET args == procs[Adder].args
                inTree(q) ==
                    \E i \in 1..Len(tree.entries) :
                        /\ tree.entries[i].Name = Base(q)
                        /\ tree.entries[i].SHA
                            = writeObject(NoFiles, TypeBlob, workdir[q].data).sha
                inIndex(q) ==
                    \E i \in 1..Len(readIndex(index)) :
                        readIndex(index)[i].Path = q
                window == /\ procs[CommitProc].seen = 0
                          /\ procs[Adder].order = 1
                          /\ procs[CommitProc].order = 2
            IN  /\ refs[getCurrentBranchRef(head).ref]
                    = procs[CommitProc].sha \o <<LF>>
                /\ tree.err = ""
                /\ \A i \in 1..Len(args) :
                    /\ window <=> (~inTree(args[i]) /\ ~inIndex(args[i]))
                    /\ window => readIndex(index) = <<>>
                    /\ ~(inTree(args[i]) /\ inIndex(args[i]))

\* C23 happens: add b and the commit have both reported success, the add
\* wrote the index after the commit had built its tree and before the
\* commit reset it, the tree of the commit is the tree of a alone and the
\* index is empty
C23_Witness ==
    /\ DOMAIN procs = {CommitProc, Adder}
    /\ procs[CommitProc].pc = "done" /\ procs[CommitProc].err = ""
    /\ procs[Adder].pc = "done" /\ procs[Adder].err = ""
    /\ procs[Adder].args = <<PathB>>
    /\ procs[CommitProc].seen = 0
    /\ procs[Adder].order = 1
    /\ procs[CommitProc].order = 2
    /\ readIndex(index) = <<>>
    /\ procs[CommitProc].tree
        = createTreeFromIndex(NoFiles,
            handleAdd(NoFiles, writeIndex(<<>>), workdir, <<PathA>>).index).sha

\* C24: when the working directory holds files only, no directory, and
\* the index holds one entry for each file, under the file's name and with
\* the blob of its content, the tree createTreeFromIndex builds and the
\* tree writeTree builds are one object: the same hash for the same
\* entries.
C24_IndexTreeIsWalkTree ==
    (/\ head.exists
     /\ DOMAIN workdir # {}
     /\ \A q \in DOMAIN workdir : \A i \in 1..Len(q) : q[i] # Slash
     /\ Len(readIndex(index)) = Cardinality(DOMAIN workdir)
     /\ {readIndex(index)[i].Path : i \in 1..Len(readIndex(index))}
            = DOMAIN workdir
     /\ \A i \in 1..Len(readIndex(index)) :
            \E e \in {readIndex(index)[i]} :
                e.SHA = writeObject(NoFiles, TypeBlob, workdir[e.Path].data).sha) =>
        \E fromIndex \in {createTreeFromIndex(objects, index)},
           fromWalk \in {writeTree(objects, workdir, <<>>)} :
            /\ fromIndex.err = ""
            /\ fromWalk.err = ""
            /\ fromIndex.sha = fromWalk.sha
            /\ fromIndex.objects[fromIndex.sha] = fromWalk.objects[fromWalk.sha]

=============================================================================
